---- MODULE Spec2Model ----
(***************************************************************************)
(* A model of the Uri library (RFC 3986): the parser of Uri.cpp with its   *)
(* host state machine, the percent-encoded character decoder, the          *)
(* character sets, the path normaliser and the comparison operators.       *)
(*                                                                         *)
(* A std::string is a sequence of char values; a char is its ASCII code,   *)
(* a signed 8-bit integer.                                                 *)
(***************************************************************************)
EXTENDS Integers, Sequences, FiniteSets, TLC

VARIABLES
    uri,        \* the Uri object under test (Uri::Impl)
    input,      \* the argument of the last call
    result,     \* the value returned by the last ParseFromString
    step,       \* the step of ParseFromString whose value was returned, or
                \* the operation called on the object after the parse
    explicit,   \* whether that value came from a return statement
    calls,      \* number of calls made on the object
    assembled,  \* a Uri put together with the setters
    pec,        \* a PercentEncodedCharacterDecoder under test
    operand,    \* the other Uri of the last call of Resolve
    characterSet \* a CharacterSet under construction from a range

vars == <<uri, input, result, step, explicit, calls, assembled, pec, operand, characterSet>>

----------------------------------------------------------------------------
(* Characters *)

\* The printable ASCII characters, in order, from ' ' (32) to '~' (126).
AsciiPrintable ==
    << " ", "!", "\"", "#", "$", "%", "&", "'", "(", ")", "*", "+", ",", "-",
       ".", "/", "0", "1", "2", "3", "4", "5", "6", "7", "8", "9", ":", ";",
       "<", "=", ">", "?", "@", "A", "B", "C", "D", "E", "F", "G", "H", "I",
       "J", "K", "L", "M", "N", "O", "P", "Q", "R", "S", "T", "U", "V", "W",
       "X", "Y", "Z", "[", "backslash", "]", "^", "_", "backtick", "a", "b", "c", "d", "e",
       "f", "g", "h", "i", "j", "k", "l", "m", "n", "o", "p", "q", "r", "s",
       "t", "u", "v", "w", "x", "y", "z", "{", "|", "}", "~" >>

\* The value of a character literal.
Ord(c) == 31 + (CHOOSE i \in 1..Len(AsciiPrintable) : AsciiPrintable[i] = c)

\* A string literal, written as a tuple of its characters.
Str(lit) == [i \in 1..Len(lit) |-> Ord(lit[i])]

SLASH    == Ord("/")
COLON    == Ord(":")
QUESTION == Ord("?")
HASH     == Ord("#")
ATSIGN   == Ord("@")
PERCENT  == Ord("%")
LBRACKET == Ord("[")
RBRACKET == Ord("]")
DOT      == Ord(".")
SPACE    == Ord(" ")
LOWER_V  == Ord("v")
LOWER_A  == Ord("a")
UPPER_A  == Ord("A")
UPPER_Z  == Ord("Z")
ZERO     == Ord("0")
NINE     == Ord("9")

\* The conversion (char)x of an int to a signed 8-bit char.
ToChar(x) == LET b == x % 256 IN IF b >= 128 THEN b - 256 ELSE b

\* tolower() in the "C" locale.
ToLower(c) ==
    IF c >= UPPER_A /\ c <= UPPER_Z THEN c + (LOWER_A - UPPER_A) ELSE c

\* A copy of the string that leaves every character as it is.
CopyWithoutCaseFolding(inString) == [i \in 1..Len(inString) |-> inString[i]]

NormalizeCaseInsensitiveString(inString) ==
    [i \in 1..Len(inString) |-> ToLower(inString[i])]

----------------------------------------------------------------------------
(* std::string helpers: positions are 1-based, 0 stands for npos *)

Find(s, c) ==
    IF \E i \in 1..Len(s) : s[i] = c
    THEN CHOOSE i \in 1..Len(s) : s[i] = c /\ \A j \in 1..(i - 1) : s[j] # c
    ELSE 0

FindFirstOf(s, cs) ==
    IF \E i \in 1..Len(s) : s[i] \in cs
    THEN CHOOSE i \in 1..Len(s) :
             s[i] \in cs /\ \A j \in 1..(i - 1) : s[j] \notin cs
    ELSE 0

\* s.substr(pos) with pos given as the 1-based index of its first character
SubstrFrom(s, first) == SubSeq(s, first, Len(s))

\* s.substr(0, n)
Prefix(s, n) == SubSeq(s, 1, IF n > Len(s) THEN Len(s) ELSE n)

----------------------------------------------------------------------------
(* CharacterSet *)

\* The set the constructor CharacterSet(first, last) leaves when it returns,
\* as it does for every range whose larger endpoint is below CHAR_MAX.
CharacterSetRange(first, last) ==
    LET lo == IF first > last THEN last ELSE first
        hi == IF first > last THEN first ELSE last
    IN  lo..hi

Contains(set, c) == c \in set

\* The constructor CharacterSet(char first, char last) taken one statement
\* at a time.  at tells where the constructor stands: "none" when no set is
\* being constructed, "entry" at its opening brace, "loop" at the test of
\* the for statement, "constructed" once it has returned.
NewCharacterSet == [at |-> "none", first |-> 0, last |-> 0, c |-> 0, charactersInSet |-> {}]

\* "if (first > last) { std::swap(first, last); }" and "char c = first"
RangeEntry(cs) ==
    LET lo == IF cs.first > cs.last THEN cs.last ELSE cs.first
        hi == IF cs.first > cs.last THEN cs.first ELSE cs.last
    IN  [cs EXCEPT !.at = "loop", !.first = lo, !.last = hi, !.c = lo]

\* The test "c < last + 1", made on int values after the promotion of both
\* operands, so that last + 1 is 128 when last is CHAR_MAX.
RangeLoopTest(cs) == cs.c < cs.last + 1

\* The body of the loop and "++c", the incremented value converted back to
\* char.
RangeLoopBody(cs) == [cs EXCEPT !.charactersInSet = @ \cup {cs.c}, !.c = ToChar(cs.c + 1)]

ALPHA == CharacterSetRange(Ord("a"), Ord("z"))
            \cup CharacterSetRange(Ord("A"), Ord("Z"))

DIGIT == CharacterSetRange(Ord("0"), Ord("9"))

HEX_UPPER == CharacterSetRange(Ord("A"), Ord("F"))

HEX_LOWER == CharacterSetRange(Ord("a"), Ord("f"))

HEXDIG == DIGIT \cup HEX_UPPER \cup HEX_LOWER

UNRESERVED == ALPHA \cup DIGIT \cup {Ord("-"), Ord("."), Ord("_"), Ord("~")}

SUB_DELIMS ==
    { Ord("!"), Ord("$"), Ord("&"), Ord("'"), Ord("("), Ord(")"),
      Ord("*"), Ord("+"), Ord(","), Ord(";"), Ord("=") }

SCHEME_NOT_FIRST == ALPHA \cup DIGIT \cup {Ord("+"), Ord("-"), Ord(".")}

PCHAR_NOT_PCT_ENCODED == UNRESERVED \cup SUB_DELIMS \cup {COLON, ATSIGN}

QUERY_OR_FRAGMENT_NOT_PCT_ENCODED ==
    PCHAR_NOT_PCT_ENCODED \cup {SLASH, QUESTION}

\* The user information set with the brace let in.
UserInfoWithBrace == UNRESERVED \cup SUB_DELIMS \cup {COLON, Ord("{")}

USER_INFO_NOT_PCT_ENCODED == UNRESERVED \cup SUB_DELIMS \cup {COLON}

REG_NAME_NOT_PCT_ENCODED == UNRESERVED \cup SUB_DELIMS

IPV_FUTURE_LAST_PART == UNRESERVED \cup SUB_DELIMS \cup {COLON}

----------------------------------------------------------------------------
(* PercentEncodedCharacterDecoder *)

NewDecoder == [decodedCharacter |-> 0, digitsLeft |-> 2]

\* ShiftInHexDigit with the digits A to F taken for the values 0 to 5.
ShiftInHexDigitWithoutTen(d, c) ==
    IF Contains(DIGIT, c)
    THEN [ok |-> TRUE,
          decoder |-> [d EXCEPT !.decodedCharacter = @ * 16 + (c - ZERO)]]
    ELSE IF Contains(HEX_UPPER, c)
    THEN [ok |-> TRUE,
          decoder |-> [d EXCEPT !.decodedCharacter = @ * 16 + (c - UPPER_A)]]
    ELSE IF Contains(HEX_LOWER, c)
    THEN [ok |-> TRUE,
          decoder |-> [d EXCEPT !.decodedCharacter =
                                    @ * 16 + (c - LOWER_A) + 10]]
    ELSE [ok |-> FALSE, decoder |-> [d EXCEPT !.decodedCharacter = @ * 16]]

\* Impl::ShiftInHexDigit: the shift happens before the digit is classified.
ShiftInHexDigit(d, c) ==
    LET shifted == d.decodedCharacter * 16 IN
    IF Contains(DIGIT, c)
    THEN [ok |-> TRUE,
          decoder |-> [d EXCEPT !.decodedCharacter = shifted + (c - ZERO)]]
    ELSE IF Contains(HEX_UPPER, c)
    THEN [ok |-> TRUE,
          decoder |-> [d EXCEPT !.decodedCharacter =
                                    shifted + (c - UPPER_A) + 10]]
    ELSE IF Contains(HEX_LOWER, c)
    THEN [ok |-> TRUE,
          decoder |-> [d EXCEPT !.decodedCharacter =
                                    shifted + (c - LOWER_A) + 10]]
    ELSE [ok |-> FALSE, decoder |-> [d EXCEPT !.decodedCharacter = shifted]]

\* "--impl_->digitsLeft" once ShiftInHexDigit has returned s.
CountDigit(s) ==
    IF ~s.ok
    THEN s
    ELSE [ok |-> TRUE,
          decoder |-> [s.decoder EXCEPT !.digitsLeft = @ - 1]]

NextEncodedCharacter(d, c) == CountDigit(ShiftInHexDigit(d, c))

Done(d) == d.digitsLeft = 0

GetDecodedCharacter(d) == ToChar(d.decodedCharacter)

----------------------------------------------------------------------------
(* DecodeElement *)

\* The loop of DecodeElement from position i on; element is the in/out
\* parameter, so a failed call leaves the part decoded so far in it.
RECURSIVE DecodeElementLoop(_, _, _, _, _, _)
RECURSIVE DecodeEncodedCharacter(_, _, _, _, _)
DecodeElementLoop(originalSegment, i, allowedCharacters, element, decodingPec, pecDecoder) ==
    IF i > Len(originalSegment)
    THEN [ok |-> TRUE, element |-> element]
    ELSE LET c == originalSegment[i] IN
         IF decodingPec
         THEN DecodeEncodedCharacter(originalSegment, i, allowedCharacters,
                  element, NextEncodedCharacter(pecDecoder, c))
         ELSE IF c = PERCENT
         THEN DecodeElementLoop(originalSegment, i + 1, allowedCharacters,
                                element, TRUE, NewDecoder)
         ELSE IF Contains(allowedCharacters, c)
         THEN DecodeElementLoop(originalSegment, i + 1, allowedCharacters,
                                Append(element, c), FALSE, pecDecoder)
         ELSE [ok |-> FALSE, element |-> element]

\* The branch "if (decodingPec)" of the loop body, n being what
\* NextEncodedCharacter returned for the character at position i.
DecodeEncodedCharacter(originalSegment, i, allowedCharacters, element, n) ==
    IF ~n.ok
    THEN [ok |-> FALSE, element |-> element]
    ELSE IF Done(n.decoder)
    THEN DecodeElementLoop(originalSegment, i + 1, allowedCharacters,
                           Append(element, GetDecodedCharacter(n.decoder)),
                           FALSE, n.decoder)
    ELSE DecodeElementLoop(originalSegment, i + 1, allowedCharacters,
                           element, TRUE, n.decoder)

DecodeElement(element, allowedCharacters) ==
    DecodeElementLoop(element, 1, allowedCharacters, <<>>, FALSE, NewDecoder)

DecodeQueryOrFragment(queryOrFragment) ==
    DecodeElement(queryOrFragment, QUERY_OR_FRAGMENT_NOT_PCT_ENCODED)

----------------------------------------------------------------------------
(* ParseUint16 *)

TwoToThe16 == 2 ^ 16

\* A uint32_t, held as its two 16-bit halves.
Uint32(high, low) == [high |-> high, low |-> low]

\* An iteration whose range check tests bit 17 and above instead of bit 16
\* and above.
ParseUint16DigitWithWiderRange(numberIn32Bits, c) ==
    LET lowSum == numberIn32Bits.low * 10 + (c - ZERO)
        highSum == numberIn32Bits.high * 10 + (lowSum \div TwoToThe16)
        now == Uint32(highSum % TwoToThe16, lowSum % TwoToThe16)
    IN  [now |-> now,
         wrapped |-> (highSum \div TwoToThe16) # 0,
         inRange |-> now.high <= 1]

\* One iteration of the loop of ParseUint16 on the accumulator
\* numberIn32Bits and the digit c: the value the accumulator holds after
\* "*= 10" and "+=", whether the exact result exceeded 32 bits (wrapped),
\* and whether the range check lets the new value through.
ParseUint16Digit(numberIn32Bits, c) ==
    LET lowSum == numberIn32Bits.low * 10 + (c - ZERO)
        highSum == numberIn32Bits.high * 10 + (lowSum \div TwoToThe16)
        now == Uint32(highSum % TwoToThe16, lowSum % TwoToThe16)
    IN  [now |-> now,
         wrapped |-> (highSum \div TwoToThe16) # 0,
         inRange |-> now.high = 0]

\* The loop of ParseUint16 from position i on.  wrapped tells whether any
\* sum computed so far exceeded 32 bits.
RECURSIVE ParseUint16Loop(_, _, _, _)
ParseUint16Loop(numberString, i, numberIn32Bits, wrapped) ==
    IF i > Len(numberString)
    THEN [ok |-> TRUE, number |-> numberIn32Bits.low, wrapped |-> wrapped]
    ELSE LET c == numberString[i] IN
         IF c < ZERO \/ c > NINE
         THEN [ok |-> FALSE, number |-> 0, wrapped |-> wrapped]
         ELSE LET d == ParseUint16Digit(numberIn32Bits, c) IN
              IF ~d.inRange
              THEN [ok |-> FALSE, number |-> 0,
                    wrapped |-> wrapped \/ d.wrapped]
              ELSE ParseUint16Loop(numberString, i + 1, d.now,
                                   wrapped \/ d.wrapped)

\* ok: the value returned; number: what is stored through the out parameter
\* (only when ok).
ParseUint16(numberString) ==
    ParseUint16Loop(numberString, 1, Uint32(0, 0), FALSE)

----------------------------------------------------------------------------
(* FailsMatch with LegalSchemeCheckStrategy *)

\* A strategy that checks the first character like the others.
SchemeCheckWithoutFirstCharacterRule(isFirstCharacter, c, end) ==
    IF end
    THEN [pass |-> ~isFirstCharacter, isFirstCharacter |-> isFirstCharacter]
    ELSE [pass |-> Contains(SCHEME_NOT_FIRST, c), isFirstCharacter |-> FALSE]

\* The lambda returned by LegalSchemeCheckStrategy, with its captured flag
\* isFirstCharacter passed in and handed back.
LegalSchemeCheckStrategy(isFirstCharacter, c, end) ==
    IF end
    THEN [pass |-> ~isFirstCharacter, isFirstCharacter |-> isFirstCharacter]
    ELSE [pass |-> IF isFirstCharacter
                   THEN Contains(ALPHA, c)
                   ELSE Contains(SCHEME_NOT_FIRST, c),
          isFirstCharacter |-> FALSE]

RECURSIVE FailsMatchLoop(_, _, _)
FailsMatchLoop(candidate, i, isFirstCharacter) ==
    IF i > Len(candidate)
    THEN ~LegalSchemeCheckStrategy(isFirstCharacter, SPACE, TRUE).pass
    ELSE LET r == LegalSchemeCheckStrategy(isFirstCharacter, candidate[i],
                                           FALSE)
         IN  IF ~r.pass
             THEN TRUE
             ELSE FailsMatchLoop(candidate, i + 1, r.isFirstCharacter)

FailsMatch(candidate) == FailsMatchLoop(candidate, 1, TRUE)

----------------------------------------------------------------------------
(* Uri::Impl *)

\* The members of a default-constructed Uri::Impl.
NewUri ==
    [ scheme   |-> <<>>,
      userInfo |-> <<>>,
      host     |-> <<>>,
      hasPort  |-> FALSE,
      port     |-> 0,
      path     |-> <<>>,
      query    |-> <<>>,
      fragment |-> <<>> ]

\* The for(;;) loop of ParsePath on a non-empty pathString.
RECURSIVE SplitPath(_)
SplitPath(pathString) ==
    LET pathDelimiter == Find(pathString, SLASH) IN
    IF pathDelimiter = 0
    THEN << pathString >>
    ELSE << SubSeq(pathString, 1, pathDelimiter - 1) >>
             \o SplitPath(SubstrFrom(pathString, pathDelimiter + 1))

\* The decoding loop of ParsePath from segment k on: a segment that fails
\* keeps what was decoded of it, the segments after it stay undecoded.
RECURSIVE DecodeSegments(_, _)
RECURSIVE SegmentDecoded(_, _, _)
DecodeSegments(path, k) ==
    IF k > Len(path)
    THEN [ok |-> TRUE, path |-> path]
    ELSE SegmentDecoded(path, k, DecodeElement(path[k], PCHAR_NOT_PCT_ENCODED))

\* The body of the decoding loop once DecodeElement has returned r for
\* segment k.
SegmentDecoded(path, k, r) ==
    IF ~r.ok
    THEN [ok |-> FALSE, path |-> [path EXCEPT ![k] = r.element]]
    ELSE DecodeSegments([path EXCEPT ![k] = r.element], k + 1)

\* A ParsePath that decodes the path string before it splits it.
ParsePathDecodingFirst(pathString) ==
    IF pathString = << SLASH >>
    THEN [ok |-> TRUE, path |-> << <<>> >>]
    ELSE IF pathString = <<>>
    THEN [ok |-> TRUE, path |-> <<>>]
    ELSE [ok |-> DecodeElement(pathString,
                               PCHAR_NOT_PCT_ENCODED \cup {SLASH}).ok,
          path |-> SplitPath(DecodeElement(pathString,
                       PCHAR_NOT_PCT_ENCODED \cup {SLASH}).element)]

ParsePath(pathString) ==
    IF pathString = << SLASH >>
    THEN DecodeSegments(<< <<>> >>, 1)
    ELSE IF pathString # <<>>
    THEN DecodeSegments(SplitPath(pathString), 1)
    ELSE DecodeSegments(<<>>, 1)

----------------------------------------------------------------------------
(* Uri::Impl::ParseAuthority: the host state machine *)

\* The locals of the loop (and the member host, which it builds in place).
NewHostParse ==
    [ hostParsingState |-> "FIRST_CHARACTER",
      host             |-> <<>>,
      portString       |-> <<>>,
      pecDecoder       |-> NewDecoder,
      hostIsRegName    |-> FALSE ]

Going(hp) == [ok |-> TRUE, hp |-> hp]
Failed(hp) == [ok |-> FALSE, hp |-> hp]

\* case HostParsingState::NOT_IP_LITERAL
NotIpLiteral(hp, c) ==
    IF c = PERCENT
    THEN Going([hp EXCEPT !.pecDecoder = NewDecoder,
                          !.hostParsingState = "PERCENT_ENCODED_CHARACTER"])
    ELSE IF c = COLON
    THEN Going([hp EXCEPT !.hostParsingState = "PORT"])
    ELSE IF Contains(REG_NAME_NOT_PCT_ENCODED, c)
    THEN Going([hp EXCEPT !.host = Append(@, c)])
    ELSE Failed(hp)

\* case HostParsingState::IPV6_ADDRESS
Ipv6Address(hp, c) ==
    IF c = RBRACKET
    THEN Going([hp EXCEPT !.host = Append(@, c),
                          !.hostParsingState = "GARBAGE_CHECK"])
    ELSE Going([hp EXCEPT !.host = Append(@, c)])

\* case HostParsingState::PERCENT_ENCODED_CHARACTER, n being what
\* NextEncodedCharacter returned.
PercentEncodedCharacter(hp, n) ==
    IF ~n.ok
    THEN Failed([hp EXCEPT !.pecDecoder = n.decoder])
    ELSE IF Done(n.decoder)
    THEN Going([hp EXCEPT
                !.pecDecoder = n.decoder,
                !.hostParsingState = "NOT_IP_LITERAL",
                !.host = Append(@, GetDecodedCharacter(n.decoder))])
    ELSE Going([hp EXCEPT !.pecDecoder = n.decoder])

\* The switch with a GARBAGE_CHECK case that skips what is not a colon.
HostStepSkippingGarbage(hp, c) ==
    CASE hp.hostParsingState = "FIRST_CHARACTER" ->
            IF c = LBRACKET
            THEN Going([hp EXCEPT !.host = Append(@, c),
                                  !.hostParsingState = "IP_LITERAL"])
            ELSE NotIpLiteral([hp EXCEPT !.hostParsingState = "NOT_IP_LITERAL",
                                         !.hostIsRegName = TRUE], c)
      [] hp.hostParsingState = "NOT_IP_LITERAL" -> NotIpLiteral(hp, c)
      [] hp.hostParsingState = "PERCENT_ENCODED_CHARACTER" ->
            PercentEncodedCharacter(hp, NextEncodedCharacter(hp.pecDecoder, c))
      [] hp.hostParsingState = "IP_LITERAL" ->
            IF c = LOWER_V
            THEN Going([hp EXCEPT !.host = Append(@, c),
                                  !.hostParsingState = "IPV_FUTURE_NUMBER"])
            ELSE Ipv6Address([hp EXCEPT !.hostParsingState = "IPV6_ADDRESS"],
                             c)
      [] hp.hostParsingState = "IPV6_ADDRESS" -> Ipv6Address(hp, c)
      [] hp.hostParsingState = "IPV_FUTURE_NUMBER" ->
            IF c = DOT
            THEN Going([hp EXCEPT !.hostParsingState = "IPV_FUTURE_BODY",
                                  !.host = Append(@, c)])
            ELSE IF ~Contains(HEXDIG, c)
            THEN Failed(hp)
            ELSE Going([hp EXCEPT !.host = Append(@, c)])
      [] hp.hostParsingState = "IPV_FUTURE_BODY" ->
            IF c = RBRACKET
            THEN Going([hp EXCEPT !.host = Append(@, c),
                                  !.hostParsingState = "GARBAGE_CHECK"])
            ELSE IF ~Contains(IPV_FUTURE_LAST_PART, c)
            THEN Failed([hp EXCEPT !.host = Append(@, c)])
            ELSE Going([hp EXCEPT !.host = Append(@, c)])
      [] hp.hostParsingState = "GARBAGE_CHECK" ->
            IF c = COLON
            THEN Going([hp EXCEPT !.hostParsingState = "PORT"])
            ELSE Going(hp)
      [] hp.hostParsingState = "PORT" ->
            Going([hp EXCEPT !.portString = Append(@, c)])

\* One pass through the switch, with the fall-through of FIRST_CHARACTER
\* into NOT_IP_LITERAL and of IP_LITERAL into IPV6_ADDRESS.
HostStep(hp, c) ==
    CASE hp.hostParsingState = "FIRST_CHARACTER" ->
            IF c = LBRACKET
            THEN Going([hp EXCEPT !.host = Append(@, c),
                                  !.hostParsingState = "IP_LITERAL"])
            ELSE NotIpLiteral([hp EXCEPT !.hostParsingState = "NOT_IP_LITERAL",
                                         !.hostIsRegName = TRUE], c)
      [] hp.hostParsingState = "NOT_IP_LITERAL" -> NotIpLiteral(hp, c)
      [] hp.hostParsingState = "PERCENT_ENCODED_CHARACTER" ->
            PercentEncodedCharacter(hp, NextEncodedCharacter(hp.pecDecoder, c))
      [] hp.hostParsingState = "IP_LITERAL" ->
            IF c = LOWER_V
            THEN Going([hp EXCEPT !.host = Append(@, c),
                                  !.hostParsingState = "IPV_FUTURE_NUMBER"])
            ELSE Ipv6Address([hp EXCEPT !.hostParsingState = "IPV6_ADDRESS"],
                             c)
      [] hp.hostParsingState = "IPV6_ADDRESS" -> Ipv6Address(hp, c)
      [] hp.hostParsingState = "IPV_FUTURE_NUMBER" ->
            IF c = DOT
            THEN Going([hp EXCEPT !.hostParsingState = "IPV_FUTURE_BODY",
                                  !.host = Append(@, c)])
            ELSE IF ~Contains(HEXDIG, c)
            THEN Failed(hp)
            ELSE Going([hp EXCEPT !.host = Append(@, c)])
      [] hp.hostParsingState = "IPV_FUTURE_BODY" ->
            IF c = RBRACKET
            THEN Going([hp EXCEPT !.host = Append(@, c),
                                  !.hostParsingState = "GARBAGE_CHECK"])
            ELSE IF ~Contains(IPV_FUTURE_LAST_PART, c)
            THEN Failed([hp EXCEPT !.host = Append(@, c)])
            ELSE Going([hp EXCEPT !.host = Append(@, c)])
      [] hp.hostParsingState = "GARBAGE_CHECK" ->
            IF c = COLON
            THEN Going([hp EXCEPT !.hostParsingState = "PORT"])
            ELSE Failed(hp)
      [] hp.hostParsingState = "PORT" ->
            Going([hp EXCEPT !.portString = Append(@, c)])

\* The loop over hostPortString from position i on.
RECURSIVE HostLoop(_, _, _)
RECURSIVE HostLoopAfterStep(_, _, _)
HostLoop(hostPortString, i, hp) ==
    IF i > Len(hostPortString)
    THEN Going(hp)
    ELSE HostLoopAfterStep(hostPortString, i, HostStep(hp, hostPortString[i]))

\* The loop after the switch has run on the character at position i: r.ok
\* tells whether it returned false.
HostLoopAfterStep(hostPortString, i, r) ==
    IF ~r.ok THEN r ELSE HostLoop(hostPortString, i + 1, r.hp)

\* The host as it is stored: a reg-name is case-folded.
FoldedHost(hp) ==
    IF hp.hostIsRegName
    THEN NormalizeCaseInsensitiveString(hp.host)
    ELSE hp.host

\* The port is stored when ParseUint16 has returned n with n.ok.
PortParsed(u, n) ==
    IF ~n.ok
    THEN [ok |-> FALSE, uri |-> u]
    ELSE [ok |-> TRUE, uri |-> [u EXCEPT !.port = n.number, !.hasPort = TRUE]]

\* FinishAuthority without the reset of hasPort for an empty port string.
FinishAuthorityKeepingHasPort(u, hp) ==
    IF hp.portString = <<>>
    THEN [ok |-> TRUE, uri |-> [u EXCEPT !.host = FoldedHost(hp)]]
    ELSE PortParsed([u EXCEPT !.host = FoldedHost(hp)],
                    ParseUint16(hp.portString))

\* What follows the loop: case folding of a reg-name and the port.
FinishAuthority(u, hp) ==
    IF hp.portString = <<>>
    THEN [ok |-> TRUE,
          uri |-> [u EXCEPT !.host = FoldedHost(hp), !.hasPort = FALSE]]
    ELSE PortParsed([u EXCEPT !.host = FoldedHost(hp)],
                    ParseUint16(hp.portString))

\* What follows the loop when it ended as r tells.
HostParsed(u, r) ==
    IF ~r.ok
    THEN [ok |-> FALSE, uri |-> [u EXCEPT !.host = r.hp.host]]
    ELSE FinishAuthority(u, r.hp)

\* The host and port part of ParseAuthority, on the object u whose userInfo
\* is already set.
ParseHostPort(u, hostPortString) ==
    HostParsed(u, HostLoop(hostPortString, 1, NewHostParse))

\* The userinfo is stored as DecodeElement left it (d); the host and port
\* are parsed only if it was decoded.
UserInfoDecoded(u, d, hostPortString) ==
    IF ~d.ok
    THEN [ok |-> FALSE, uri |-> [u EXCEPT !.userInfo = d.element]]
    ELSE ParseHostPort([u EXCEPT !.userInfo = d.element], hostPortString)

ParseAuthority(u, authorityString) ==
    LET userInfoDelimiter == Find(authorityString, ATSIGN) IN
    IF userInfoDelimiter = 0
    THEN ParseHostPort([u EXCEPT !.userInfo = <<>>], authorityString)
    ELSE UserInfoDecoded(
             u,
             DecodeElement(SubSeq(authorityString, 1, userInfoDelimiter - 1),
                           USER_INFO_NOT_PCT_ENCODED),
             SubstrFrom(authorityString, userInfoDelimiter + 1))

----------------------------------------------------------------------------
(* The steps of Uri::ParseFromString *)

\* Uri::Impl::ParseScheme.  Only the rejection of the scheme executes a
\* return statement; every other path reaches the end of the function
\* without one, so the value the caller reads is not determined by the code
\* (returned = FALSE).
ParseScheme(u, uriString) ==
    LET slash == Find(uriString, SLASH)
        authorityOrPathDelimiterStart ==
            IF slash = 0 THEN Len(uriString) ELSE slash - 1
        schemeEnd ==
            Find(Prefix(uriString, authorityOrPathDelimiterStart), COLON)
    IN  IF schemeEnd = 0
        THEN [returned |-> FALSE, value |-> TRUE,
              uri |-> [u EXCEPT !.scheme = <<>>], rest |-> uriString]
        ELSE LET scheme == SubSeq(uriString, 1, schemeEnd - 1) IN
             IF FailsMatch(scheme)
             THEN [returned |-> TRUE, value |-> FALSE,
                   uri |-> [u EXCEPT !.scheme = scheme], rest |-> <<>>]
             ELSE [returned |-> FALSE, value |-> TRUE,
                   uri |-> [u EXCEPT !.scheme =
                                NormalizeCaseInsensitiveString(scheme)],
                   rest |-> SubstrFrom(uriString, schemeEnd + 1)]

\* The length of the authority: up to the first '/', or all that is left.
AuthorityEnd(stripped) ==
    IF Find(stripped, SLASH) = 0
    THEN Len(stripped)
    ELSE Find(stripped, SLASH) - 1

\* The end of SplitAuthorityFromPathAndParseIt when ParseAuthority has
\* returned a.
AuthorityParsed(a, pathString) ==
    IF ~a.ok
    THEN [returned |-> TRUE, value |-> FALSE, uri |-> a.uri,
          pathString |-> pathString]
    ELSE [returned |-> FALSE, value |-> TRUE, uri |-> a.uri,
          pathString |-> pathString]

\* Uri::Impl::SplitAuthorityFromPathAndParseIt.  As in ParseScheme, only the
\* failure of ParseAuthority executes a return statement.
SplitAuthorityFromPathAndParseIt(u, authorityAndPathString) ==
    IF Prefix(authorityAndPathString, 2) = << SLASH, SLASH >>
    THEN LET stripped == SubstrFrom(authorityAndPathString, 3)
             authorityEnd == AuthorityEnd(stripped)
         IN  AuthorityParsed(
                 ParseAuthority(u, Prefix(stripped, authorityEnd)),
                 SubstrFrom(stripped, authorityEnd + 1))
    ELSE [returned |-> FALSE, value |-> TRUE,
          uri |-> [u EXCEPT !.userInfo = <<>>, !.host = <<>>,
                            !.hasPort = FALSE],
          pathString |-> authorityAndPathString]

\* The default path given only when the Uri also has a userinfo.
SetDefaultPathOnlyWithUserInfo(u) ==
    IF u.host # <<>> /\ u.userInfo # <<>> /\ u.path = <<>>
    THEN [u EXCEPT !.path = << <<>> >>]
    ELSE u

SetDefaultPathIfAuthorityPresentAndPathEmpty(u) ==
    IF u.host # <<>> /\ u.path = <<>>
    THEN [u EXCEPT !.path = << <<>> >>]
    ELSE u

\* The query is stored as DecodeQueryOrFragment left it (d).
QueryDecoded(u, d) == [ok |-> d.ok, uri |-> [u EXCEPT !.query = d.element]]

ParseQuery(u, queryWithDelimiter) ==
    QueryDecoded(u, DecodeQueryOrFragment(
                        IF queryWithDelimiter = <<>>
                        THEN <<>>
                        ELSE SubstrFrom(queryWithDelimiter, 2)))

\* The fragment is stored as DecodeQueryOrFragment left it (d).
FragmentDecoded(u, d, rest) ==
    [ok |-> d.ok, uri |-> [u EXCEPT !.fragment = d.element], rest |-> rest]

ParseFragment(u, queryAndOrFragment) ==
    LET fragmentDelimiter == Find(queryAndOrFragment, HASH) IN
    IF fragmentDelimiter = 0
    THEN FragmentDecoded(u, DecodeQueryOrFragment(<<>>), queryAndOrFragment)
    ELSE FragmentDecoded(
             u,
             DecodeQueryOrFragment(
                 SubstrFrom(queryAndOrFragment, fragmentDelimiter + 1)),
             SubSeq(queryAndOrFragment, 1, fragmentDelimiter - 1))

\* What ParseFromString returns and leaves in the object when it returns at
\* the given step.
Returned(u, value, at, byStatement) ==
    [uri |-> u, result |-> value, step |-> at, explicit |-> byStatement]

\* ParseFromString from the call of ParseQuery on, which has returned q.
AfterParseQuery(q) == Returned(q.uri, q.ok, "ParseQuery", TRUE)

\* ParseFromString from the call of ParseFragment on, which has returned f.
AfterParseFragment(f) ==
    IF ~f.ok
    THEN Returned(f.uri, FALSE, "ParseFragment", TRUE)
    ELSE AfterParseQuery(ParseQuery(f.uri, f.rest))

\* ParseFromString from the call of ParsePath on, which has returned p.
AfterParsePath(u, p, queryAndOrFragment) ==
    IF ~p.ok
    THEN Returned([u EXCEPT !.path = p.path], FALSE, "ParsePath", TRUE)
    ELSE AfterParseFragment(
             ParseFragment(
                 SetDefaultPathIfAuthorityPresentAndPathEmpty(
                     [u EXCEPT !.path = p.path]),
                 queryAndOrFragment))

\* ParseFromString from the call of SplitAuthorityFromPathAndParseIt on,
\* which has ended as a tells.
AfterSplitAuthority(a, queryAndOrFragment, seen2) ==
    IF ~(IF a.returned THEN a.value ELSE seen2)
    THEN Returned(a.uri, FALSE, "SplitAuthorityFromPathAndParseIt",
                  a.returned)
    ELSE AfterParsePath(a.uri, ParsePath(a.pathString), queryAndOrFragment)

\* The text up to the first '?' or '#'.
AuthorityAndPathString(rest) ==
    IF FindFirstOf(rest, {QUESTION, HASH}) = 0
    THEN rest
    ELSE SubSeq(rest, 1, FindFirstOf(rest, {QUESTION, HASH}) - 1)

\* ParseFromString from the call of ParseScheme on, which has ended as s
\* tells.
AfterParseScheme(s, seen1, seen2) ==
    IF ~(IF s.returned THEN s.value ELSE seen1)
    THEN Returned(s.uri, FALSE, "ParseScheme", s.returned)
    ELSE AfterSplitAuthority(
             SplitAuthorityFromPathAndParseIt(
                 s.uri, AuthorityAndPathString(s.rest)),
             SubstrFrom(s.rest, Len(AuthorityAndPathString(s.rest)) + 1),
             seen2)

\* Uri::ParseFromString on the object u.  seen1 and seen2 are the values the
\* caller happens to read from ParseScheme and from
\* SplitAuthorityFromPathAndParseIt when these end without a return
\* statement.
ParseFromString(u, uriString, seen1, seen2) ==
    AfterParseScheme(ParseScheme(u, uriString), seen1, seen2)

\* A comparison that looks at the port number whether or not there is a port.
EqualsComparingPortNumbers(a, b) ==
    /\ a.scheme = b.scheme
    /\ a.userInfo = b.userInfo
    /\ a.host = b.host
    /\ a.hasPort = b.hasPort
    /\ a.port = b.port
    /\ a.path = b.path
    /\ a.query = b.query
    /\ a.fragment = b.fragment

\* Uri::operator==
Equals(a, b) ==
    /\ a.scheme = b.scheme
    /\ a.userInfo = b.userInfo
    /\ a.host = b.host
    /\ \/ ~a.hasPort /\ ~b.hasPort
       \/ a.hasPort /\ b.hasPort /\ a.port = b.port
    /\ a.path = b.path
    /\ a.query = b.query
    /\ a.fragment = b.fragment

\* Uri::operator!=
NotEquals(a, b) == ~Equals(a, b)

----------------------------------------------------------------------------
(* Inputs *)

\* Bounds of the model.
MaxCalls == 2

\* The strings given to a Uri object that is parsed into repeatedly: every
\* combination of a scheme part, an authority part, a path and a tail, the
\* parts chosen so that each step of ParseFromString succeeds on some and
\* fails on others, and so that each member is set by some and not by others.
SchemeParts == { <<>>, Str(<<"h", ":">>), Str(<<"1", ":">>) }

AuthorityParts ==
    { <<>>,
      Str(<<"/", "/", "b">>),
      Str(<<"/", "/", "u", "@", "A", ":", "8", "0">>),
      Str(<<"/", "/", "a", ":", "x">>) }

PathParts == { <<>>, Str(<<"/", "b">>), Str(<<"/", "{">>) }

TailParts ==
    { <<>>, Str(<<"?", "q", "#", "f">>), Str(<<"?", "{">>),
      Str(<<"#", "{">>) }

Inputs ==
    { sc \o au \o pa \o tl :
        sc \in SchemeParts, au \in AuthorityParts,
        pa \in PathParts, tl \in TailParts }

\* All strings over an alphabet, up to a length.
StringsUpTo(alphabet, maxLen) ==
    UNION { [1..n -> alphabet] : n \in 0..maxLen }

MaxSchemeLen == 3
MaxRefLen == 4
MaxLiteralLen == 5
MaxPortLen == 5

\* Scheme candidates: letters of both cases, a digit, a legal and an illegal
\* symbol; each followed by ':' and the start of an authority or a path.
SchemeAlphabet == { Ord("a"), Ord("Z"), Ord("0"), Ord("+"), Ord("@") }

SchemeInputs ==
    { candidate \o rest :
        candidate \in StringsUpTo(SchemeAlphabet, MaxSchemeLen),
        rest \in { Str(<<":">>), Str(<<":", "/", "/", "a", "/">>),
                   Str(<<":", "b">>) } }

\* Short references made of a letter and the delimiters of a URI.
RefAlphabet == { Ord("a"), COLON, SLASH, QUESTION, HASH, ATSIGN }

RefInputs == StringsUpTo(RefAlphabet, MaxRefLen)

\* Authorities whose host starts with '[': what follows is made of the
\* characters of IPv6 and IPvFuture literals, a character that belongs to
\* neither, and the closing bracket.
LiteralAlphabet ==
    { LOWER_V, Ord("1"), DOT, COLON, RBRACKET, Ord("x") }

LiteralInputs ==
    { Str(<<"/", "/", "[">>) \o body :
        body \in StringsUpTo(LiteralAlphabet, MaxLiteralLen) }

ScanInputs == SchemeInputs \cup RefInputs \cup LiteralInputs

\* Port strings: the digits of 65535 and 65536, zero, and a non-digit; and
\* some longer than any 16-bit or 32-bit number.
PortAlphabet == { Ord("0"), Ord("3"), Ord("5"), Ord("6"), Ord("x") }

LongPortStrings ==
    { Str(<<"0", "0", "0", "0", "0", "0", "0", "0", "8", "0">>),
      Str(<<"0", "0", "0", "0", "0", "0", "6", "5", "5", "3", "5">>),
      Str(<<"0", "0", "0", "0", "0", "0", "6", "5", "5", "3", "6">>),
      Str(<<"4", "2", "9", "4", "9", "6", "7", "2", "9", "6">>),
      Str(<<"4", "2", "9", "4", "9", "6", "7", "3", "7", "6">>),
      Str(<<"9", "9", "9", "9", "9", "9", "9", "9", "9", "9", "9">>) }

PortStrings == StringsUpTo(PortAlphabet, MaxPortLen) \cup LongPortStrings

PortPrefix == Str(<<"/", "/", "a", ":">>)

PortInputs == { PortPrefix \o portString : portString \in PortStrings }

\* References put together from a scheme, an authority (userinfo, host,
\* port), a path and a query or fragment.  The hosts are reg-names, one of
\* them with a percent-encoded letter, and IP-literals, all with letters of
\* both cases; the host may also be empty.
RefSchemes == { <<>>, Str(<<"h">>), Str(<<"H">>), Str(<<"a", "B">>) }

RefUserInfos == { <<>>, Str(<<"U", "@">>) }

RegNames ==
    { Str(<<"a">>), Str(<<"A">>), Str(<<"b", ".", "C">>),
      Str(<<"B", ".", "c">>), Str(<<"%", "4", "1">>) }

IpLiterals ==
    { Str(<<"[", "v", "7", ".", "a", "B", "]">>),
      Str(<<"[", ":", ":", "F", "]">>) }

RefHosts == RegNames \cup IpLiterals \cup { <<>> }

RefPorts == { <<>>, Str(<<":", "8", "0">>) }

RefPaths == { <<>>, Str(<<"/">>), Str(<<"/", "P">>) }

RefTails == { <<>>, Str(<<"?", "Q">>), Str(<<"#", "F">>) }

RefText(scheme, authority, userInfo, host, port, path, tail) ==
    (IF scheme = <<>> THEN <<>> ELSE scheme \o << COLON >>)
        \o (IF authority
            THEN << SLASH, SLASH >> \o userInfo \o host \o port
            ELSE <<>>)
        \o path \o tail

Reference(scheme, authority, userInfo, host, port, path, tail) ==
    [ scheme |-> scheme, authority |-> authority, userInfo |-> userInfo,
      host |-> host, port |-> port, path |-> path, tail |-> tail,
      text |-> RefText(scheme, authority, userInfo, host, port, path, tail) ]

References ==
    { Reference(sc, TRUE, ui, ho, po, pa, tl) :
        sc \in RefSchemes, ui \in RefUserInfos, ho \in RefHosts,
        po \in RefPorts, pa \in RefPaths, tl \in RefTails }
    \cup
    { Reference(sc, FALSE, <<>>, <<>>, <<>>, pa, tl) :
        sc \in RefSchemes, pa \in RefPaths, tl \in RefTails }

ReferenceInputs == { r.text : r \in References }

----------------------------------------------------------------------------
(* The setters and GenerateString *)

\* A Uri before any setter was called: the members of Uri::Impl and the
\* presence of a query and of a fragment.
NewAssembled ==
    [ scheme   |-> <<>>,
      userInfo |-> <<>>,
      host     |-> <<>>,
      hasPort  |-> FALSE,
      port     |-> 0,
      path     |-> <<>>,
      hasQuery |-> FALSE,
      query    |-> <<>>,
      hasFragment |-> FALSE,
      fragment |-> <<>> ]

HexDigitUpper(n) == IF n < 10 THEN ZERO + n ELSE UPPER_A + (n - 10)

\* The element with every byte outside allowedCharacters percent-encoded,
\* in upper-case hexadecimal digits.
RECURSIVE EncodeElement(_, _)
EncodeElement(element, allowedCharacters) ==
    IF element = <<>>
    THEN <<>>
    ELSE (IF element[1] \in allowedCharacters
          THEN << element[1] >>
          ELSE << PERCENT,
                  HexDigitUpper((element[1] % 256) \div 16),
                  HexDigitUpper((element[1] % 256) % 16) >>)
         \o EncodeElement(Tail(element), allowedCharacters)

\* The decimal numeral of a port number.
RECURSIVE ToDecimal(_)
ToDecimal(n) ==
    IF n < 10
    THEN << ZERO + n >>
    ELSE ToDecimal(n \div 10) \o << ZERO + (n % 10) >>

\* The segments of a path, percent-encoded, with '/' between them.
RECURSIVE JoinPath(_)
JoinPath(path) ==
    IF path = <<>>
    THEN <<>>
    ELSE IF Len(path) = 1
    THEN (IF path[1] = <<>>
          THEN << SLASH >>
          ELSE EncodeElement(path[1], PCHAR_NOT_PCT_ENCODED))
    ELSE EncodeElement(path[1], PCHAR_NOT_PCT_ENCODED)
             \o << SLASH >>
             \o (IF Len(path) = 2 /\ path[2] = <<>>
                 THEN <<>>
                 ELSE JoinPath(Tail(path)))

\* The Uri has an authority: a host, a userinfo or a port.
HasAuthority(u) == u.host # <<>> \/ u.userInfo # <<>> \/ u.hasPort

GenerateString(u) ==
    (IF u.scheme # <<>> THEN u.scheme \o << COLON >> ELSE <<>>)
    \o (IF HasAuthority(u)
        THEN << SLASH, SLASH >>
             \o (IF u.userInfo # <<>>
                 THEN EncodeElement(u.userInfo, USER_INFO_NOT_PCT_ENCODED)
                          \o << ATSIGN >>
                 ELSE <<>>)
             \o (IF Find(u.host, COLON) # 0
                 THEN << LBRACKET >> \o u.host \o << RBRACKET >>
                 ELSE EncodeElement(u.host, REG_NAME_NOT_PCT_ENCODED))
             \o (IF u.hasPort
                 THEN << COLON >> \o ToDecimal(u.port)
                 ELSE <<>>)
        ELSE <<>>)
    \o JoinPath(u.path)
    \o (IF u.hasQuery
        THEN << QUESTION >>
             \o EncodeElement(u.query,
                    QUERY_OR_FRAGMENT_NOT_PCT_ENCODED \ { Ord("+") })
        ELSE <<>>)
    \o (IF u.hasFragment
        THEN << HASH >>
             \o EncodeElement(u.fragment, QUERY_OR_FRAGMENT_NOT_PCT_ENCODED)
        ELSE <<>>)

\* The values given to the setters.
SetterSchemes == { Str(<<"h">>) }

SetterUserInfos == { Str(<<"u">>), Str(<<"u", " ", ":">>) }

SetterHosts ==
    { Str(<<"a">>), Str(<<":", ":", "1">>), Str(<<"1", ".", "2">>) }

SetterPorts == { 0, 80, 65535 }

SetterPaths ==
    { << <<>> >>, << <<>>, Str(<<"b">>) >>, << Str(<<"b">>), <<>> >>,
      << Str(<<"a", ":", "b">>) >>, << <<>>, Str(<<"a", " ", "c">>), <<>> >> }

SetterQueries == { <<>>, Str(<<"q">>), Str(<<"a", "+", "b">>) }

SetterFragments == { <<>>, Str(<<"f", " ", "?">>) }

Assembling == calls = 0 /\ UNCHANGED <<uri, input, result, step, explicit, calls, pec, operand, characterSet>>

SetScheme(scheme) ==
    Assembling /\ assembled' = [assembled EXCEPT !.scheme = scheme]

SetUserInfo(userinfo) ==
    Assembling /\ assembled' = [assembled EXCEPT !.userInfo = userinfo]

SetHost(host) ==
    Assembling /\ assembled' = [assembled EXCEPT !.host = host]

SetPort(port) ==
    Assembling /\ assembled' = [assembled EXCEPT !.hasPort = TRUE,
                                                 !.port = port]

ClearPort ==
    Assembling /\ assembled' = [assembled EXCEPT !.hasPort = FALSE]

SetPath(path) ==
    Assembling /\ assembled' = [assembled EXCEPT !.path = path]

ClearQuery ==
    Assembling /\ assembled' = [assembled EXCEPT !.hasQuery = FALSE,
                                                 !.query = <<>>]

SetQuery(query) ==
    Assembling /\ assembled' = [assembled EXCEPT !.hasQuery = TRUE,
                                                 !.query = query]

ClearFragment ==
    Assembling /\ assembled' = [assembled EXCEPT !.hasFragment = FALSE,
                                                 !.fragment = <<>>]

SetFragment(fragment) ==
    Assembling /\ assembled' = [assembled EXCEPT !.hasFragment = TRUE,
                                                 !.fragment = fragment]

----------------------------------------------------------------------------
(* The life of one Uri object *)

Init ==
    /\ uri = NewUri
    /\ input = <<>>
    /\ result = FALSE
    /\ step = "none"
    /\ explicit = TRUE
    /\ calls = 0
    /\ assembled = NewAssembled
    /\ pec = NewDecoder
    /\ operand = NewUri
    /\ characterSet = NewCharacterSet

\* The state of the object and the returned value after a call that ended
\* as r tells.
Leaves(r) ==
    /\ uri' = r.uri
    /\ result' = r.result
    /\ step' = r.step
    /\ explicit' = r.explicit

\* A call of uri.ParseFromString(uriString).
ParseFromStringCall(uriString) ==
    /\ calls < MaxCalls
    /\ \E seen1, seen2 \in BOOLEAN :
          Leaves(ParseFromString(uri, uriString, seen1, seen2))
    /\ input' = uriString
    /\ calls' = calls + 1
    /\ UNCHANGED <<assembled, pec, operand, characterSet>>

Next == \E uriString \in Inputs : ParseFromStringCall(uriString)

Spec == Init /\ [][Next]_vars

----------------------------------------------------------------------------
(* One call of ParseFromString on a freshly constructed Uri *)

\* The object is new and the string to parse is chosen among candidates.
FreshWith(candidates) ==
    /\ uri = NewUri
    /\ input \in candidates
    /\ result = FALSE
    /\ step = "none"
    /\ explicit = TRUE
    /\ calls = 0
    /\ assembled = NewAssembled
    /\ pec = NewDecoder
    /\ operand = NewUri
    /\ characterSet = NewCharacterSet

ParseOnce == calls = 0 /\ ParseFromStringCall(input)

InitScan == FreshWith(ScanInputs)
SpecScan == InitScan /\ [][ParseOnce]_vars

InitPort == FreshWith(PortInputs)
SpecPort == InitPort /\ [][ParseOnce]_vars

InitRef == FreshWith(ReferenceInputs)
SpecRef == InitRef /\ [][ParseOnce]_vars

----------------------------------------------------------------------------
(* A Uri assembled with the setters, generated and parsed again *)

\* Another Uri parses the string generated from the assembled one.
ParseGenerated == calls = 0 /\ ParseFromStringCall(GenerateString(assembled))

NextRoundTrip ==
    \/ \E scheme \in SetterSchemes : SetScheme(scheme)
    \/ \E userinfo \in SetterUserInfos : SetUserInfo(userinfo)
    \/ \E host \in SetterHosts : SetHost(host)
    \/ \E port \in SetterPorts : SetPort(port)
    \/ ClearPort
    \/ \E path \in SetterPaths : SetPath(path)
    \/ ClearQuery
    \/ \E query \in SetterQueries : SetQuery(query)
    \/ ClearFragment
    \/ \E fragment \in SetterFragments : SetFragment(fragment)
    \/ ParseGenerated

SpecRoundTrip == Init /\ [][NextRoundTrip]_vars

----------------------------------------------------------------------------
(* C2: the result of ParseFromString does not depend on the object's past *)

\* The authority parts that carry no port.
AuthorityPartsWithoutPort == { <<>>, Str(<<"/", "/", "b">>) }

\* C2: whenever ParseFromString returned true on an object, whatever was
\* parsed into the object before (successfully or not), the object compares
\* equal to a freshly constructed Uri that parsed the same string; it has no
\* port when the string has none, and an empty userinfo and host when the
\* string has no authority.
ParseResultIndependentOfHistory ==
    (calls > 0 /\ result) =>
        /\ \A seen1, seen2 \in BOOLEAN :
              LET fresh == ParseFromString(NewUri, input, seen1, seen2) IN
              /\ (seen1 /\ seen2) => fresh.result
              /\ fresh.result => (Equals(uri, fresh.uri)
                                    /\ ~NotEquals(uri, fresh.uri))
        /\ \A sc \in SchemeParts, au \in AuthorityParts,
              pa \in PathParts, tl \in TailParts :
              (input = sc \o au \o pa \o tl) =>
                  /\ (au \in AuthorityPartsWithoutPort) => ~uri.hasPort
                  /\ (au = <<>>) => (uri.userInfo = <<>> /\ uri.host = <<>>)

\* A second successful parse, of a string without a port, on an object that
\* still holds the port number of an earlier parse.
ReparsedWithoutPort ==
    /\ calls = MaxCalls
    /\ result
    /\ ~uri.hasPort
    /\ uri.port # 0
    /\ uri.userInfo = <<>>

----------------------------------------------------------------------------
(* C3: scheme validation *)

Letters == (Ord("a")..Ord("z")) \cup (Ord("A")..Ord("Z"))
Digits == Ord("0")..Ord("9")

\* scheme = ALPHA *( ALPHA / DIGIT / "+" / "-" / "." )
IsLegalScheme(text) ==
    /\ text # <<>>
    /\ text[1] \in Letters
    /\ \A i \in 2..Len(text) :
          text[i] \in Letters \cup Digits \cup {Ord("+"), Ord("-"), Ord(".")}

\* The part of a string before the first '/'.
BeforeFirstSlash(text) ==
    IF \E i \in 1..Len(text) : text[i] = SLASH
    THEN SubSeq(text, 1,
                (CHOOSE i \in 1..Len(text) :
                    text[i] = SLASH /\ \A j \in 1..(i - 1) : text[j] # SLASH)
                - 1)
    ELSE text

HasColon(text) == \E i \in 1..Len(text) : text[i] = COLON

\* The part of a string before its first ':'.
BeforeFirstColon(text) ==
    SubSeq(text, 1,
           (CHOOSE i \in 1..Len(text) :
               text[i] = COLON /\ \A j \in 1..(i - 1) : text[j] # COLON) - 1)

SchemeRejected == step = "ParseScheme" /\ explicit /\ ~result

\* C3: when a ':' occurs before the first '/', ParseFromString returns false
\* if the text before that ':' is empty, starts with a non-letter or holds a
\* byte outside letters, digits, '+', '-', '.'; every text made of a letter
\* followed by such bytes passes the scheme check and is stored as the scheme.
SchemeValidation ==
    (calls = 1 /\ HasColon(BeforeFirstSlash(input))) =>
        LET candidate == BeforeFirstColon(BeforeFirstSlash(input)) IN
        IF IsLegalScheme(candidate)
        THEN /\ ~SchemeRejected
             /\ uri.scheme = [i \in 1..Len(candidate) |->
                                 IF candidate[i] \in Ord("A")..Ord("Z")
                                 THEN candidate[i] + (Ord("a") - Ord("A"))
                                 ELSE candidate[i]]
        ELSE SchemeRejected

\* A scheme with a digit and a '+' after its first letter was accepted, and
\* the whole string parsed.
BarelyLegalSchemeAccepted ==
    /\ calls = 1
    /\ result
    /\ input = Str(<<"a", "0", "+", ":", "/", "/", "a", "/">>)
    /\ uri.scheme = Str(<<"a", "0", "+">>)

\* A scheme that starts with a digit was rejected.
SchemeStartingWithDigitRejected ==
    /\ calls = 1
    /\ SchemeRejected
    /\ input = Str(<<"0", "a", ":", "b">>)

----------------------------------------------------------------------------
(* C6: port bounds *)

\* A string without its leading zeros.
RECURSIVE WithoutLeadingZeros(_)
WithoutLeadingZeros(text) ==
    IF text # <<>> /\ text[1] = Ord("0")
    THEN WithoutLeadingZeros(Tail(text))
    ELSE text

\* Whether a string of digits, all of the same length, comes before or is
\* the other in the order of the numbers they denote.
RECURSIVE DigitsAtMost(_, _)
DigitsAtMost(text, limit) ==
    \/ text = <<>>
    \/ text[1] < limit[1]
    \/ text[1] = limit[1] /\ DigitsAtMost(Tail(text), Tail(limit))

\* A decimal numeral of a number that is at most 65535.
IsPortNumeral(text) ==
    /\ text # <<>>
    /\ \A i \in 1..Len(text) : text[i] \in Digits
    /\ LET significant == WithoutLeadingZeros(text)
           largest == Str(<<"6", "5", "5", "3", "5">>)
       IN  \/ Len(significant) < Len(largest)
           \/ /\ Len(significant) = Len(largest)
              /\ DigitsAtMost(significant, largest)

\* The number a numeral of at most 65535 denotes.
RECURSIVE NumeralValue(_)
NumeralValue(text) ==
    IF text = <<>>
    THEN 0
    ELSE 10 * NumeralValue(SubSeq(text, 1, Len(text) - 1))
            + (text[Len(text)] - Ord("0"))

AuthorityRejected ==
    step = "SplitAuthorityFromPathAndParseIt" /\ explicit /\ ~result

\* C6: a non-empty port string passes exactly when it is made of decimal
\* digits and denotes a number of at most 65535, however many digits it has;
\* the Uri parsed from it has that port.  Any other port string makes
\* ParseFromString return false, and no sum computed in the 32-bit
\* accumulator exceeds 32 bits.
PortBounds ==
    (calls = 1 /\ Len(input) > Len(PortPrefix)) =>
        LET portString == SubSeq(input, Len(PortPrefix) + 1, Len(input)) IN
        /\ ~ParseUint16(portString).wrapped
        /\ ParseUint16(portString).ok = IsPortNumeral(portString)
        /\ IF IsPortNumeral(portString)
           THEN /\ ~AuthorityRejected
                /\ step = "ParseQuery" => result
                /\ result => /\ uri.hasPort
                             /\ uri.port = NumeralValue(portString)
           ELSE /\ ~result
                /\ step # "ParseScheme" => AuthorityRejected

\* The largest port, written with leading zeros, was parsed.
LargestPortWithLeadingZerosParsed ==
    /\ calls = 1
    /\ result
    /\ input = PortPrefix
                 \o Str(<<"0", "0", "0", "0", "0", "0", "6", "5", "5", "3", "5">>)
    /\ uri.hasPort
    /\ uri.port = 65535

----------------------------------------------------------------------------
(* C4: case-insensitivity of the scheme and of a reg-name host *)

LowerCased(text) ==
    [i \in 1..Len(text) |->
        IF text[i] \in Ord("A")..Ord("Z")
        THEN text[i] + (Ord("a") - Ord("A"))
        ELSE text[i]]

HexValue(c) ==
    IF c \in Digits THEN c - Ord("0")
    ELSE IF c \in Ord("A")..Ord("F") THEN c - Ord("A") + 10
    ELSE c - Ord("a") + 10

\* A text with its percent-escapes replaced by the bytes they stand for.
RECURSIVE Unescaped(_)
Unescaped(text) ==
    IF text = <<>>
    THEN <<>>
    ELSE IF text[1] = PERCENT /\ Len(text) >= 3
    THEN << 16 * HexValue(text[2]) + HexValue(text[3]) >>
             \o Unescaped(SubSeq(text, 4, Len(text)))
    ELSE << text[1] >> \o Unescaped(Tail(text))

\* A host without the brackets around it, if it has them.
WithoutBrackets(text) ==
    IF Len(text) >= 2 /\ text[1] = LBRACKET /\ text[Len(text)] = RBRACKET
    THEN SubSeq(text, 2, Len(text) - 1)
    ELSE text

\* Two references that differ at most in the letter case of the scheme and
\* of a reg-name host.
DifferOnlyInCase(r, other) ==
    /\ LowerCased(other.scheme) = LowerCased(r.scheme)
    /\ \/ other.host = r.host
       \/ /\ r.host \in RegNames
          /\ other.host \in RegNames
          /\ LowerCased(other.host) = LowerCased(r.host)
    /\ other = Reference(other.scheme, r.authority, r.userInfo, other.host,
                         r.port, r.path, r.tail)

\* Every way a fresh Uri can parse the text into a Uri equal to u.
FreshParseEquals(text, u) ==
    \A seen1, seen2 \in BOOLEAN :
        LET fresh == ParseFromString(NewUri, text, seen1, seen2) IN
        /\ (seen1 /\ seen2) => fresh.result
        /\ fresh.result => Equals(u, fresh.uri)

----------------------------------------------------------------------------
(* C7: an empty path after an authority is the path "/" *)

----------------------------------------------------------------------------
(* C5: a colon outside the scheme is not the scheme delimiter *)

AllIn(text, allowed) == \A i \in 1..Len(text) : text[i] \in allowed

Count(text, c) == Cardinality({ i \in 1..Len(text) : text[i] = c })

\* The text up to the first '?' or '#', and the text from there on.
BeforeQueryOrFragment(text) ==
    IF FindFirstOf(text, { QUESTION, HASH }) = 0
    THEN text
    ELSE SubSeq(text, 1, FindFirstOf(text, { QUESTION, HASH }) - 1)

FromQueryOrFragment(text) ==
    IF FindFirstOf(text, { QUESTION, HASH }) = 0
    THEN <<>>
    ELSE SubSeq(text, FindFirstOf(text, { QUESTION, HASH }), Len(text))

StartsWithTwoSlashes(text) ==
    Len(text) >= 2 /\ text[1] = SLASH /\ text[2] = SLASH

\* The authority of a hierarchical part that starts with "//", and the
\* path that follows it.
AuthorityText(hierPart) ==
    BeforeFirstSlash(SubSeq(hierPart, 3, Len(hierPart)))

\* An authority over the letters, ':' and '@' that has no port, so that
\* every colon in it lies in the userinfo.
IsAuthorityWithoutPort(text) ==
    /\ AllIn(text, Letters \cup { COLON, ATSIGN })
    /\ Count(text, ATSIGN) <= 1
    /\ ~HasColon(SubSeq(text, Find(text, ATSIGN) + 1, Len(text)))

\* A relative reference over the letters, ':', '/', '?', '#' and '@' in
\* which every colon lies in the userinfo, in the path after the first
\* '/', in the query or in the fragment.
IsReferenceWithColonsElsewhere(text) ==
    LET hierPart == BeforeQueryOrFragment(text)
        tail == FromQueryOrFragment(text)
    IN  /\ AllIn(text, Letters \cup { COLON, SLASH, QUESTION, HASH, ATSIGN })
        /\ Count(tail, HASH) <= 1
        /\ IF StartsWithTwoSlashes(hierPart)
           THEN IsAuthorityWithoutPort(AuthorityText(hierPart))
           ELSE ~HasColon(BeforeFirstSlash(hierPart))

\* C5 as the specification states it: a reference without a scheme whose
\* colons all lie in the userinfo, in the path after the first '/', in the
\* query or in the fragment parses successfully, with an empty scheme,
\* whenever ParseFromString returns through a return statement.
ColonElsewhereIsNotSchemeDelimiter ==
    (calls = 1 /\ explicit /\ IsReferenceWithColonsElsewhere(input))
        => (result /\ uri.scheme = <<>>)

----------------------------------------------------------------------------
(* C8, C9, C10: IP-literal hosts *)

IsHexDigit(c) ==
    c \in Digits \cup (Ord("a")..Ord("f")) \cup (Ord("A")..Ord("F"))

\* The pieces of a text between the occurrences of a separator.
RECURSIVE SplitAt(_, _)
SplitAt(text, separator) ==
    IF Find(text, separator) = 0
    THEN << text >>
    ELSE << SubSeq(text, 1, Find(text, separator) - 1) >>
             \o SplitAt(SubSeq(text, Find(text, separator) + 1, Len(text)),
                        separator)

IsDecOctet(text) ==
    /\ Len(text) \in 1..3
    /\ AllIn(text, Digits)
    /\ (Len(text) > 1 => text[1] # Ord("0"))
    /\ NumeralValue(text) <= 255

IsIPv4Address(text) ==
    LET octets == SplitAt(text, DOT) IN
    /\ Len(octets) = 4
    /\ \A i \in 1..4 : IsDecOctet(octets[i])

IsH16(text) == Len(text) \in 1..4 /\ \A i \in 1..Len(text) : IsHexDigit(text[i])

\* The IPv6address of RFC 3986: groups of one to four hexadecimal digits
\* between colons, the last of which may be an IPv4address, with at most
\* one "::" standing for the groups left out.
IsIPv6Address(text) ==
    LET groups == SplitAt(text, COLON)
        n == Len(groups)
        elisions == { i \in 1..(Len(text) - 1) :
                         text[i] = COLON /\ text[i + 1] = COLON }
        emptyAllowed(i) ==
            \/ (i = 1 /\ 1 \in elisions)
            \/ (i = n /\ (Len(text) - 1) \in elisions)
            \/ (i \in 2..(n - 1)
                  /\ Cardinality({ j \in 1..(n - 1) : groups[j] = <<>> /\ j > 1 })
                        <= 1)
        filled == { i \in 1..n : groups[i] # <<>> }
        width(i) == IF i = n /\ IsIPv4Address(groups[i]) THEN 2 ELSE 1
        total == Cardinality(filled)
                    + (IF n \in filled /\ IsIPv4Address(groups[n]) THEN 1 ELSE 0)
    IN  /\ text # <<>>
        /\ Cardinality(elisions) <= 1
        /\ \A i \in 1..n :
              IF groups[i] = <<>>
              THEN emptyAllowed(i)
              ELSE IsH16(groups[i]) \/ (i = n /\ IsIPv4Address(groups[i]))
        /\ IF elisions = {} THEN total = 8 ELSE total <= 7

\* The IPvFuture of RFC 3986: "v", hexadecimal digits, ".", and one or more
\* unreserved characters, sub-delimiters or colons.
IsIPvFuture(text) ==
    LET dot == Find(text, DOT) IN
    /\ Len(text) >= 4
    /\ text[1] \in { Ord("v"), Ord("V") }
    /\ dot >= 3
    /\ dot < Len(text)
    /\ \A i \in 2..(dot - 1) : IsHexDigit(text[i])
    /\ \A i \in (dot + 1)..Len(text) :
          text[i] \in Letters \cup Digits \cup
              { Ord("-"), Ord("."), Ord("_"), Ord("~"), Ord("!"), Ord("$"),
                Ord("&"), Ord("'"), Ord("("), Ord(")"), Ord("*"), Ord("+"),
                Ord(","), Ord(";"), Ord("="), COLON }

LiteralPrefix == Str(<<"/", "/", "[">>)

\* The input is "//[", a text without brackets, and "]".
IsBracketedHost(text) ==
    /\ Len(text) > Len(LiteralPrefix)
    /\ SubSeq(text, 1, Len(LiteralPrefix)) = LiteralPrefix
    /\ Find(text, RBRACKET) = Len(text)

\* The text between the brackets of such an input.
BetweenBrackets(text) == SubSeq(text, Len(LiteralPrefix) + 1, Len(text) - 1)

\* C8 as the specification states it: the host stored for a bracketed
\* IP-literal by a successful parse is the text between the brackets.
IpLiteralStoredWithoutBrackets ==
    (/\ calls = 1
     /\ result
     /\ IsBracketedHost(input)
     /\ (IsIPv6Address(BetweenBrackets(input))
            \/ IsIPvFuture(BetweenBrackets(input))))
        => uri.host = BetweenBrackets(input)

\* C9 as the specification states it: a bracketed host that is neither an
\* IPvFuture nor a well-formed IPv6address makes the parse return false.
IllFormedIPv6Rejected ==
    (/\ calls = 1
     /\ IsBracketedHost(input)
     /\ (BetweenBrackets(input) = <<>>
            \/ BetweenBrackets(input)[1] \notin { Ord("v"), Ord("V") })
     /\ ~IsIPv6Address(BetweenBrackets(input)))
        => ~result

\* C10 as the specification states it: a host that begins with '[' in an
\* authority that ends before the closing ']' makes the parse return false.
UnbalancedBracketRejected ==
    (/\ calls = 1
     /\ Len(input) >= Len(LiteralPrefix)
     /\ SubSeq(input, 1, Len(LiteralPrefix)) = LiteralPrefix
     /\ Find(input, RBRACKET) = 0)
        => ~result

----------------------------------------------------------------------------
(* C1: a generated string parses back to an equal Uri *)

\* The invariants of the data model: a Uri with a non-empty host and a
\* non-empty path has an absolute path, and the first segment of a Uri
\* without scheme and without host has no colon.
SatisfiesInvariants(u) ==
    /\ (u.host # <<>> /\ u.path # <<>>) => u.path[1] = <<>>
    /\ (u.scheme = <<>> /\ u.host = <<>> /\ u.path # <<>>)
          => ~HasColon(u.path[1])

\* C1 as the specification states it, for the Uris with an authority that
\* have an absolute path: when ParseFromString returns through a return
\* statement, it has parsed the string generated from a Uri that satisfies
\* the invariants successfully and into an equal Uri.
RoundTrip ==
    (/\ calls = 1
     /\ explicit
     /\ SatisfiesInvariants(assembled)
     /\ HasAuthority(assembled)
     /\ assembled.path # <<>>
     /\ assembled.path[1] = <<>>)
        => (result /\ Equals(assembled, uri))

----------------------------------------------------------------------------
(* One call of ParseFromString on a string with one element to decode *)

MaxElementLen == 3

\* '%', two hexadecimal digits, a letter that is no hexadecimal digit, and
\* characters no element allows: '{', '[', ' ' and the byte 0xE9.
ElementAlphabet ==
    { PERCENT, Ord("4"), Ord("f"), Ord("x"), Ord("{"), LBRACKET, SPACE,
      ToChar(233) }

ElementTexts == StringsUpTo(ElementAlphabet, MaxElementLen)

\* The string with the element as its user information, as its host, as the
\* only segment of its absolute path, as its query or as its fragment.
ElementPlaces == { "userinfo", "host", "path", "query", "fragment" }

InPlace(place, element) ==
    IF place = "userinfo"
    THEN Str(<<"/", "/">>) \o element \o Str(<<"@", "a">>)
    ELSE IF place = "host" THEN Str(<<"/", "/">>) \o element
    ELSE IF place = "path" THEN <<SLASH>> \o element
    ELSE IF place = "query" THEN <<QUESTION>> \o element
    ELSE <<HASH>> \o element

ElementInputs ==
    { InPlace(place, element) :
        place \in ElementPlaces, element \in ElementTexts }

InitElement == FreshWith(ElementInputs)
SpecElement == InitElement /\ [][ParseOnce]_vars

----------------------------------------------------------------------------
(* C11: malformed percent-escapes *)

\* The place of the element in an input of ElementInputs.
ElementPlace(text) ==
    IF Len(text) >= 2 /\ SubSeq(text, 1, 2) = Str(<<"/", "/">>)
    THEN IF Find(text, ATSIGN) # 0 THEN "userinfo" ELSE "host"
    ELSE IF text[1] = SLASH THEN "path"
    ELSE IF text[1] = QUESTION THEN "query"
    ELSE "fragment"

\* The element of an input of ElementInputs.
ElementOf(text) ==
    IF ElementPlace(text) = "userinfo" THEN SubSeq(text, 3, Len(text) - 2)
    ELSE IF ElementPlace(text) = "host" THEN SubSeq(text, 3, Len(text))
    ELSE SubSeq(text, 2, Len(text))

\* Some '%' of the element is not followed, inside the element, by two
\* hexadecimal digits.
HasMalformedEscape(element) ==
    \E i \in 1..Len(element) :
        /\ element[i] = PERCENT
        /\ ~(/\ i + 2 <= Len(element)
             /\ IsHexDigit(element[i + 1])
             /\ IsHexDigit(element[i + 2]))

\* The host of the input is a reg-name: it does not begin with '['.
IsRegNamePlace(text) ==
    ElementPlace(text) = "host" => (ElementOf(text) = <<>> \/ ElementOf(text)[1] # LBRACKET)

\* C11 as the specification states it: a parse of a string whose user
\* information, reg-name host, path segment, query or fragment holds a '%'
\* that is not followed inside that component by two hexadecimal digits
\* returns false, also when the component ends right after the '%' or after
\* the '%' and one hexadecimal digit.
MalformedEscapeRejected ==
    (/\ calls = 1
     /\ IsRegNamePlace(input)
     /\ HasMalformedEscape(ElementOf(input)))
        => ~result

----------------------------------------------------------------------------
(* C12: characters that a component does not allow *)

Unreserved == Letters \cup Digits \cup { Ord("-"), Ord("."), Ord("_"), Ord("~") }

SubDelims ==
    { Ord("!"), Ord("$"), Ord("&"), Ord("'"), Ord("("), Ord(")"), Ord("*"),
      Ord("+"), Ord(","), Ord(";"), Ord("=") }

\* The characters RFC 3986 lets stand unescaped in the component at a place.
AllowedAt(place) ==
    IF place = "userinfo" THEN Unreserved \cup SubDelims \cup {COLON}
    ELSE IF place = "host" THEN Unreserved \cup SubDelims
    ELSE IF place = "path" THEN Unreserved \cup SubDelims \cup {COLON, ATSIGN}
    ELSE Unreserved \cup SubDelims \cup {COLON, ATSIGN, SLASH, QUESTION}

\* Some byte of the element that is not part of a percent-escape is outside
\* the set.  (The hexadecimal digits of an escape are in every set, so a
\* byte other than '%' outside the set is never part of an escape.)
HasIllegalCharacter(element, allowed) ==
    \E i \in 1..Len(element) :
        element[i] # PERCENT /\ element[i] \notin allowed

\* C12: a parse of a string whose user information, reg-name host, path
\* segment, query or fragment holds, outside a percent-escape, a byte that
\* the character set of that component does not contain returns false.
IllegalCharacterRejected ==
    (/\ calls = 1
     /\ IsRegNamePlace(input)
     /\ HasIllegalCharacter(ElementOf(input), AllowedAt(ElementPlace(input))))
        => ~result

\* The parse of "//{@a" has returned false from the parse of the authority.
BraceInUserInfoRejected ==
    /\ calls = 1
    /\ input = Str(<<"/", "/", "{", "@", "a">>)
    /\ step = "SplitAuthorityFromPathAndParseIt"
    /\ explicit
    /\ ~result

----------------------------------------------------------------------------
(* C13: an empty query or fragment is present *)

\* The input ends with the '?' that starts an empty query, or with the '#'
\* that starts an empty fragment.
EndsWithEmptyQueryOrFragment(text) ==
    /\ text # <<>>
    /\ \/ Find(text, QUESTION) = Len(text) /\ Find(text, HASH) = 0
       \/ Find(text, HASH) = Len(text)

\* The Uri u differs from the one a parse has produced, if it succeeded.
DiffersFromParsed(u, other) == other.result => ~Equals(u, other.uri)

\* C13 as the specification states it: the Uri parsed from a string that
\* ends with the delimiter of an empty query (of an empty fragment) is not
\* equal to the Uri parsed from the same string without that delimiter.
EmptyButPresentDiffersFromAbsent ==
    (/\ calls = 1
     /\ result
     /\ EndsWithEmptyQueryOrFragment(input))
        => \A seen1, seen2 \in BOOLEAN :
               DiffersFromParsed(uri,
                   ParseFromString(NewUri,
                       SubSeq(input, 1, Len(input) - 1), seen1, seen2))

----------------------------------------------------------------------------
(* NormalizePath *)

DotSegment == Str(<<".">>)
DotDotSegment == Str(<<".", ".">>)

\* The loop body of Impl::NormalizePath with the "atDirectoryLevel = true"
\* of the ".." branch left out.
NormalizeSegmentKeepingLevel(segment, isAbsolute, acc) ==
    IF segment = DotSegment
    THEN [acc EXCEPT !.atDirectoryLevel = TRUE]
    ELSE IF segment = DotDotSegment
    THEN IF acc.path # <<>> /\ (~isAbsolute \/ Len(acc.path) > 1)
         THEN [acc EXCEPT !.path = SubSeq(@, 1, Len(@) - 1)]
         ELSE acc
    ELSE [path |-> IF ~acc.atDirectoryLevel \/ segment # <<>>
                   THEN Append(acc.path, segment)
                   ELSE acc.path,
          atDirectoryLevel |-> segment = <<>>]

\* The loop body of Impl::NormalizePath with a ".." branch that does not
\* look at isAbsolute, so that it removes the first segment of an absolute
\* path as well.
NormalizeSegmentRemovingRoot(segment, isAbsolute, acc) ==
    IF segment = DotSegment
    THEN [acc EXCEPT !.atDirectoryLevel = TRUE]
    ELSE IF segment = DotDotSegment
    THEN [path |-> IF acc.path # <<>>
                   THEN SubSeq(acc.path, 1, Len(acc.path) - 1)
                   ELSE acc.path,
          atDirectoryLevel |-> TRUE]
    ELSE [path |-> IF ~acc.atDirectoryLevel \/ segment # <<>>
                   THEN Append(acc.path, segment)
                   ELSE acc.path,
          atDirectoryLevel |-> segment = <<>>]

\* The loop body of Impl::NormalizePath: acc holds the new path and
\* atDirectoryLevel.
NormalizeSegment(segment, isAbsolute, acc) ==
    IF segment = DotSegment
    THEN [acc EXCEPT !.atDirectoryLevel = TRUE]
    ELSE IF segment = DotDotSegment
    THEN [path |-> IF acc.path # <<>> /\ (~isAbsolute \/ Len(acc.path) > 1)
                   THEN SubSeq(acc.path, 1, Len(acc.path) - 1)
                   ELSE acc.path,
          atDirectoryLevel |-> TRUE]
    ELSE [path |-> IF ~acc.atDirectoryLevel \/ segment # <<>>
                   THEN Append(acc.path, segment)
                   ELSE acc.path,
          atDirectoryLevel |-> segment = <<>>]

\* The end of NormalizePath without the statement after the loop.
NormalizedPathAsAccumulated(acc) == acc.path

\* The statement after the loop of Impl::NormalizePath.
NormalizedPath(acc) ==
    IF acc.atDirectoryLevel /\ acc.path # <<>> /\ acc.path[Len(acc.path)] # <<>>
    THEN Append(acc.path, <<>>)
    ELSE acc.path

\* The loop of Impl::NormalizePath from the segment at position i on.
RECURSIVE NormalizePathLoop(_, _, _, _)
NormalizePathLoop(oldPath, i, isAbsolute, acc) ==
    IF i > Len(oldPath)
    THEN NormalizedPath(acc)
    ELSE NormalizePathLoop(oldPath, i + 1, isAbsolute,
                           NormalizeSegment(oldPath[i], isAbsolute, acc))

\* Impl::NormalizePath on the object u.
NormalizePath(u) ==
    [u EXCEPT !.path =
        NormalizePathLoop(u.path, 1, u.path # <<>> /\ u.path[1] = <<>>,
                          [path |-> <<>>, atDirectoryLevel |-> FALSE])]

\* A call of uri.NormalizePath() after the parse.
NormalizePathCall ==
    /\ calls = 1
    /\ uri' = NormalizePath(uri)
    /\ step' = "NormalizePath"
    /\ UNCHANGED <<input, result, explicit, calls, assembled, pec, operand, characterSet>>

----------------------------------------------------------------------------
(* A parse of a string with dot segments, then calls of NormalizePath *)

MaxPathLen == 6

PathAlphabet == { SLASH, DOT, Ord("a") }

PathInputs == StringsUpTo(PathAlphabet, MaxPathLen)

InitNormalize == FreshWith(PathInputs)

NextNormalize == ParseOnce \/ NormalizePathCall

SpecNormalize == InitNormalize /\ [][NextNormalize]_vars

----------------------------------------------------------------------------
(* C14: NormalizePath is idempotent *)

\* C14: once NormalizePath has been called on a Uri, whatever the segments
\* of its path were (an absolute or a relative path with any mix of ".",
\* "..", empty and ordinary segments), another call of NormalizePath leaves
\* the path as it is.
NormalizePathIdempotent ==
    step = "NormalizePath" => NormalizePath(uri).path = uri.path

\* NormalizePath has turned the path of "/a/../" and of its like, which has
\* a ".." segment and an empty last segment, into the path of "/".
DotDotBeforeEmptySegmentNormalized ==
    /\ step = "NormalizePath"
    /\ result
    /\ input = Str(<<"/", "a", "/", ".", ".", "/">>)
    /\ uri.path = << <<>> >>

----------------------------------------------------------------------------
(* Resolve *)

CopyScheme(u, other) == [u EXCEPT !.scheme = other.scheme]

\* A CopyAuthority that leaves the port behind.
CopyAuthorityWithoutPort(u, other) ==
    [u EXCEPT !.host = other.host, !.userInfo = other.userInfo]

CopyAuthority(u, other) ==
    [u EXCEPT !.host = other.host, !.userInfo = other.userInfo,
              !.hasPort = other.hasPort, !.port = other.port]

CopyPath(u, other) == [u EXCEPT !.path = other.path]

CopyAndNormalizePath(u, other) == NormalizePath(CopyPath(u, other))

CopyQuery(u, other) == [u EXCEPT !.query = other.query]

CopyFragment(u, other) == [u EXCEPT !.fragment = other.fragment]

IsPathAbsolute(u) == u.path # <<>> /\ u.path[1] = <<>>

\* The merge of Resolve with the "pop_back" left out: the last segment of
\* the base path stays.
MergeKeepingLastSegment(target, relativeReference) ==
    NormalizePath([target EXCEPT !.path = @ \o relativeReference.path])

\* The merge of Resolve with a "pop_back" that also removes the only
\* segment of the base path.
MergeDroppingOnlySegment(target, relativeReference) ==
    NormalizePath(
        [target EXCEPT !.path =
            (IF Len(@) > 0 THEN SubSeq(@, 1, Len(@) - 1) ELSE @)
                \o relativeReference.path])

\* "T.path = merge(Base.path, R.path)": target holds a copy of the base
\* path; its last segment goes unless it is the only one, the segments of
\* the reference are appended and the path is normalised.
Merge(target, relativeReference) ==
    NormalizePath(
        [target EXCEPT !.path =
            (IF Len(@) > 1 THEN SubSeq(@, 1, Len(@) - 1) ELSE @)
                \o relativeReference.path])

\* The branch of Resolve for a reference without scheme and without host.
ResolvePathAndQuery(base, relativeReference) ==
    IF relativeReference.path = <<>>
    THEN CopyQuery([NewUri EXCEPT !.path = base.path],
                   IF relativeReference.query # <<>>
                   THEN relativeReference
                   ELSE base)
    ELSE CopyQuery(
             IF IsPathAbsolute(relativeReference)
             THEN CopyAndNormalizePath(NewUri, relativeReference)
             ELSE Merge(CopyPath(NewUri, base), relativeReference),
             relativeReference)

\* Uri::Resolve called on the object base: the target it returns.
Resolve(base, relativeReference) ==
    CopyFragment(
        IF relativeReference.scheme # <<>>
        THEN CopyQuery(
                 CopyAndNormalizePath(
                     CopyAuthority(CopyScheme(NewUri, relativeReference),
                                   relativeReference),
                     relativeReference),
                 relativeReference)
        ELSE CopyScheme(
                 IF relativeReference.host # <<>>
                 THEN CopyQuery(
                          CopyAndNormalizePath(
                              CopyAuthority(NewUri, relativeReference),
                              relativeReference),
                          relativeReference)
                 ELSE CopyAuthority(
                          ResolvePathAndQuery(base, relativeReference),
                          base),
                 base),
        relativeReference)

\* What a parse of the text makes of a new object when the caller reads
\* true from the steps that end without a return statement.
Parsed(text) == ParseFromString(NewUri, text, TRUE, TRUE)

\* The longest path on which the model lets Resolve be called.
MaxSegments == 3

\* A call of base.Resolve(uri) after a successful parse: the object under
\* test becomes the target.
ResolveAgainst(base) ==
    /\ calls = 1
    /\ result
    /\ Len(uri.path) <= MaxSegments
    /\ uri' = Resolve(base, uri)
    /\ operand' = base
    /\ UNCHANGED characterSet
    /\ step' = "Resolve"
    /\ UNCHANGED <<input, result, explicit, calls, assembled, pec>>

\* A call of uri.Resolve(relativeReference) after a successful parse: the
\* object under test becomes the target.
ResolveReference(relativeReference) ==
    /\ calls = 1
    /\ result
    /\ Len(uri.path) <= MaxSegments
    /\ uri' = Resolve(uri, relativeReference)
    /\ operand' = relativeReference
    /\ UNCHANGED characterSet
    /\ step' = "Resolve"
    /\ UNCHANGED <<input, result, explicit, calls, assembled, pec>>

----------------------------------------------------------------------------
(* The reference resolution examples of RFC 3986, section 5.4 *)

Http == Str(<<"h", "t", "t", "p", ":", "/", "/">>)
HttpABC == Http \o Str(<<"a", "/", "b", "/", "c">>)

\* The base of the examples, "http://a/b/c/d;p?q".
ExamplesBase == HttpABC \o Str(<<"/", "d", ";", "p", "?", "q">>)

\* The normal examples (section 5.4.1) with their targets.
NormalExamples ==
    {
       [reference |-> Str(<<"g", ":", "h">>),
        target |-> Str(<<"g", ":", "h">>)],
       [reference |-> Str(<<"g">>),
        target |-> HttpABC \o Str(<<"/", "g">>)],
       [reference |-> Str(<<".", "/", "g">>),
        target |-> HttpABC \o Str(<<"/", "g">>)],
       [reference |-> Str(<<"g", "/">>),
        target |-> HttpABC \o Str(<<"/", "g", "/">>)],
       [reference |-> Str(<<"/", "/", "g">>),
        target |-> Http \o Str(<<"g">>)],
       [reference |-> Str(<<"?", "y">>),
        target |-> HttpABC \o Str(<<"/", "d", ";", "p", "?", "y">>)],
       [reference |-> Str(<<"g", "?", "y">>),
        target |-> HttpABC \o Str(<<"/", "g", "?", "y">>)],
       [reference |-> Str(<<"#", "s">>),
        target |-> HttpABC \o Str(<<"/", "d", ";", "p", "?", "q", "#", "s">>)],
       [reference |-> Str(<<"g", "#", "s">>),
        target |-> HttpABC \o Str(<<"/", "g", "#", "s">>)],
       [reference |-> Str(<<"g", "?", "y", "#", "s">>),
        target |-> HttpABC \o Str(<<"/", "g", "?", "y", "#", "s">>)],
       [reference |-> Str(<<";", "x">>),
        target |-> HttpABC \o Str(<<"/", ";", "x">>)],
       [reference |-> Str(<<"g", ";", "x">>),
        target |-> HttpABC \o Str(<<"/", "g", ";", "x">>)],
       [reference |-> Str(<<"g", ";", "x", "?", "y", "#", "s">>),
        target |-> HttpABC \o Str(<<"/", "g", ";", "x", "?", "y", "#", "s">>)],
       [reference |-> <<>>,
        target |-> HttpABC \o Str(<<"/", "d", ";", "p", "?", "q">>)],
       [reference |-> Str(<<".">>),
        target |-> HttpABC \o Str(<<"/">>)],
       [reference |-> Str(<<".", "/">>),
        target |-> HttpABC \o Str(<<"/">>)],
       [reference |-> Str(<<".", ".">>),
        target |-> Http \o Str(<<"a", "/", "b", "/">>)],
       [reference |-> Str(<<".", ".", "/">>),
        target |-> Http \o Str(<<"a", "/", "b", "/">>)],
       [reference |-> Str(<<".", ".", "/", "g">>),
        target |-> Http \o Str(<<"a", "/", "b", "/", "g">>)],
       [reference |-> Str(<<".", ".", "/", ".", ".">>),
        target |-> Http \o Str(<<"a">>)],
       [reference |-> Str(<<".", ".", "/", ".", ".", "/">>),
        target |-> Http \o Str(<<"a">>)],
       [reference |-> Str(<<".", ".", "/", ".", ".", "/", "g">>),
        target |-> Http \o Str(<<"a", "/", "g">>)]
    }

\* References of the abnormal examples (section 5.4.2).
AbnormalReferences ==
    { Str(<<".", ".", "/", ".", ".", "/", ".", ".", "/", "g">>),
      Str(<<"/", ".", "/", "g">>),
      Str(<<"/", ".", ".", "/", "g">>),
      Str(<<"g", ".">>),
      Str(<<".", ".", "g">>),
      Str(<<".", "/", ".", ".", "/", "g">>),
      Str(<<"g", "/", ".", ".", "/", "h">>),
      Str(<<"g", "?", "y", "/", ".", "/", "x">>),
      Str(<<"g", "#", "s", "/", ".", ".", "/", "x">>),
      Str(<<"h", "t", "t", "p", ":", "g">>) }

\* References with a query that is empty: "?" and "?#s".
EmptyQueryReferences == { Str(<<"?">>), Str(<<"?", "#", "s">>) }

ExampleInputs ==
    { e.reference : e \in NormalExamples }
        \cup AbnormalReferences \cup EmptyQueryReferences

InitResolve == FreshWith(ExampleInputs)

NextResolve == ParseOnce \/ ResolveAgainst(Parsed(ExamplesBase).uri)

SpecResolve == InitResolve /\ [][NextResolve]_vars

----------------------------------------------------------------------------
(* C15: the normal examples of reference resolution *)

\* The target the table gives for a reference of the normal examples.
TargetOf(reference) ==
    (CHOOSE e \in NormalExamples : e.reference = reference).target

\* C15: for the base "http://a/b/c/d;p?q" and each reference of the normal
\* examples of RFC 3986, section 5.4.1, Resolve returns a Uri equal to the
\* one parsed from the target string of the table.
NormalExamplesResolved ==
    (/\ step = "Resolve"
     /\ input \in { e.reference : e \in NormalExamples })
        => (/\ Parsed(TargetOf(input)).result
            /\ Equals(uri, Parsed(TargetOf(input)).uri))

\* "../g" has been resolved to the Uri of "http://a/b/g".
ParentReferenceResolved ==
    /\ step = "Resolve"
    /\ input = Str(<<".", ".", "/", "g">>)
    /\ uri.scheme = Str(<<"h", "t", "t", "p">>)
    /\ uri.host = Str(<<"a">>)
    /\ uri.path = << <<>>, Str(<<"b">>), Str(<<"g">>) >>
    /\ uri.query = <<>>

----------------------------------------------------------------------------
(* C16: equality *)

\* The Uris that new objects make of the inputs.
Comparands == { Parsed(text).uri : text \in Inputs }

\* Two values of the data model are the same: the same scheme, user
\* information, host, path, query and fragment, and either no port on both
\* sides or the same port on both sides.
SameValue(a, b) ==
    /\ a.scheme = b.scheme
    /\ a.userInfo = b.userInfo
    /\ a.host = b.host
    /\ a.hasPort = b.hasPort
    /\ a.hasPort => a.port = b.port
    /\ a.path = b.path
    /\ a.query = b.query
    /\ a.fragment = b.fragment

\* C16: operator== tells, in either order of its operands, whether two
\* Uris are the same field by field, the port being a tagged field, so the
\* number left in the port of a Uri without port has no influence; and
\* operator!= is the negation of operator==.
EqualityIsFieldWise ==
    \A other \in Comparands :
        /\ Equals(uri, other) = SameValue(uri, other)
        /\ Equals(other, uri) = SameValue(uri, other)
        /\ NotEquals(uri, other) = ~Equals(uri, other)
        /\ NotEquals(other, uri) = ~Equals(other, uri)

\* An object without port that still holds the port number of an earlier
\* parse compares equal to a Uri without port whose port number is 0.
LeftoverPortNumberIgnored ==
    /\ calls = MaxCalls
    /\ result
    /\ ~uri.hasPort
    /\ uri.port # 0
    /\ \E other \in Comparands :
          ~other.hasPort /\ other.port = 0 /\ Equals(uri, other)

----------------------------------------------------------------------------
(* A parse, then calls of NormalizePath and Resolve in any order *)

OperationSchemes == { <<>>, Str(<<"s", ":">>) }

OperationAuthorities ==
    { <<>>, Str(<<"/", "/", "h">>), Str(<<"/", "/">>),
      Str(<<"/", "/", "u", "@", "h", ":", "8">>) }

\* Paths with ordinary, empty, "." and ".." segments, with a colon in the
\* first and in the second segment, written out and percent-encoded.
OperationPaths ==
    { <<>>,
      Str(<<"/">>),
      Str(<<"a">>),
      Str(<<"/", "a">>),
      Str(<<"a", "/", "b">>),
      Str(<<".", ".">>),
      Str(<<"/", ".", ".", "/", "a">>),
      Str(<<"a", "/", ".", ".">>),
      Str(<<".", "/", "/", "a">>),
      Str(<<"a", ":", "b">>),
      Str(<<".", "/", "a", ":", "b">>),
      Str(<<"a", "/", ".", ".", "/", "b", ":", "c">>),
      Str(<<"%", "3", "A">>),
      Str(<<"/", "%", "3", "a", "/", "a">>) }

OperationTails == { <<>>, Str(<<"?", "q">>), Str(<<"#", "f">>) }

OperationInputs ==
    { sc \o au \o pa \o tl :
        sc \in OperationSchemes, au \in OperationAuthorities,
        pa \in OperationPaths, tl \in OperationTails }

\* The Uris that the other operand of Resolve may be: those parsed from
\* "s://h/a/b", "//h", "/a", "a/b", "../a", "a/", "?q" and "".
OperandTexts ==
    { Str(<<"s", ":", "/", "/", "h", "/", "a", "/", "b">>),
      Str(<<"/", "/", "h">>),
      Str(<<"/", "a">>),
      Str(<<"a", "/", "b">>),
      Str(<<".", ".", "/", "a">>),
      Str(<<"a", "/">>),
      Str(<<"?", "q">>),
      <<>> }

Operands == { Parsed(text).uri : text \in OperandTexts }

InitOperations == FreshWith(OperationInputs)

NextOperations ==
    \/ ParseOnce
    \/ NormalizePathCall
    \/ \E base \in Operands : ResolveAgainst(base)
    \/ \E relativeReference \in Operands : ResolveReference(relativeReference)

SpecOperations == InitOperations /\ [][NextOperations]_vars

----------------------------------------------------------------------------
(* C17: a Uri with a host has an absolute path *)

\* C17: in every Uri produced by a successful ParseFromString and by
\* calls of NormalizePath and Resolve after it, a path that is not empty
\* is absolute when the host is not empty.
PathAbsoluteWithHost ==
    (calls = 1 /\ result) =>
        ((uri.host # <<>> /\ uri.path # <<>>) => uri.path[1] = <<>>)

\* A reference with a relative path has been resolved against a base with
\* a host: the target has the host and an absolute path of several
\* segments.
RelativePathResolvedAgainstHost ==
    /\ step = "Resolve"
    /\ Find(input, SLASH) # 1
    /\ Find(input, COLON) = 0
    /\ input # <<>>
    /\ uri.host # <<>>
    /\ Len(uri.path) > 2

----------------------------------------------------------------------------
(* C18: path-noscheme *)

\* C18 as the specification states it: after a successful ParseFromString,
\* and also after NormalizePath, the first segment of the path of a Uri
\* without scheme and without host contains no colon.
FirstSegmentWithoutColon ==
    (/\ calls = 1
     /\ result
     /\ step # "Resolve"
     /\ uri.scheme = <<>>
     /\ uri.host = <<>>
     /\ uri.path # <<>>)
        => ~HasColon(uri.path[1])

----------------------------------------------------------------------------
(* Calls on a PercentEncodedCharacterDecoder *)

\* Every value of a char.
AllCharacters == (0 - 128)..127

\* The state after a call of NextEncodedCharacter that has returned n.ok;
\* input holds the characters given to the decoder.
DecoderLeaves(n, c) ==
    /\ pec' = n.decoder
    /\ result' = n.ok
    /\ input' = Append(input, c)
    /\ UNCHANGED <<uri, step, explicit, calls, assembled, operand, characterSet>>

\* A call of pec.NextEncodedCharacter(c).  As DecodeElement, ParseAuthority
\* and the tests of the decoder do, the caller gives the decoder no
\* character after one that it has not accepted, and none once it is done.
NextEncodedCharacterCall(c) ==
    /\ input = <<>> \/ result
    /\ ~Done(pec)
    /\ DecoderLeaves(NextEncodedCharacter(pec, c), c)

\* "pec = Uri::PercentEncodedCharacterDecoder()"
NewDecoderAssigned ==
    /\ input # <<>>
    /\ pec' = NewDecoder
    /\ input' = <<>>
    /\ result' = FALSE
    /\ UNCHANGED <<uri, step, explicit, calls, assembled, operand, characterSet>>

NextDecoder ==
    \/ \E c \in AllCharacters : NextEncodedCharacterCall(c)
    \/ NewDecoderAssigned

SpecDecoder == Init /\ [][NextDecoder]_vars

----------------------------------------------------------------------------
(* C19: the decoder of percent-encoded characters *)

\* The characters given to the decoder that are hexadecimal digits.
GivenDigits == SelectSeq(input, IsHexDigit)

----------------------------------------------------------------------------
(* One call of ParseFromString on a string of segments with escapes *)

MaxSegmentsLen == 5

SegmentsAlphabet == { SLASH, PERCENT, Ord("2"), Ord("F"), Ord("a") }

SegmentsInputs == StringsUpTo(SegmentsAlphabet, MaxSegmentsLen)

InitSegments == FreshWith(SegmentsInputs)

SpecSegments == InitSegments /\ [][ParseOnce]_vars

----------------------------------------------------------------------------
(* C20: the segments of a path *)

\* The path string of an input without scheme, query and fragment: all of
\* it, or what follows the authority.
PathStringOf(text) ==
    IF Len(text) >= 2 /\ text[1] = SLASH /\ text[2] = SLASH
    THEN IF Find(SubSeq(text, 3, Len(text)), SLASH) = 0
         THEN <<>>
         ELSE SubSeq(text, Find(SubSeq(text, 3, Len(text)), SLASH) + 2,
                     Len(text))
    ELSE text

\* The position of the k-th '/' of a text; 0 for k = 0, and the position
\* after the text when it has fewer.
NthSlash(text, k) ==
    IF k = 0 THEN 0
    ELSE IF k > Count(text, SLASH) THEN Len(text) + 1
    ELSE CHOOSE i \in 1..Len(text) :
             text[i] = SLASH /\ Count(SubSeq(text, 1, i), SLASH) = k

\* The substring between the (k-1)-th and the k-th '/'.
BetweenSlashes(text, k) ==
    SubSeq(text, NthSlash(text, k - 1) + 1, NthSlash(text, k) - 1)

\* A text with its escapes replaced by the chars they stand for.
Decoded(text) == [i \in 1..Len(Unescaped(text)) |-> ToChar(Unescaped(text)[i])]

\* The path is the list of the substrings between the '/' of the string,
\* each one decoded (a substring with a malformed escape left aside).
IsSplitOf(path, pathString) ==
    /\ Len(path) = Count(pathString, SLASH) + 1
    /\ \A k \in 1..Len(path) :
          ~HasMalformedEscape(BetweenSlashes(pathString, k))
              => path[k] = Decoded(BetweenSlashes(pathString, k))

\* C20: a successful parse stores for the empty path string the empty
\* list (the list of one empty segment when the string has a host), for
\* the path string "/" the list of one empty segment, and for every other
\* path string the substrings between its '/' characters, in order, one
\* more than it has '/' characters; each segment is decoded after the
\* split, so that an escaped '/' ends no segment.
PathSplitAtSlashes ==
    (calls = 1 /\ result) =>
        IF PathStringOf(input) = <<>>
        THEN uri.path = (IF uri.host # <<>> THEN << <<>> >> ELSE <<>>)
        ELSE IF PathStringOf(input) = << SLASH >>
        THEN uri.path = << <<>> >>
        ELSE IsSplitOf(uri.path, PathStringOf(input))

\* "%2F/a" has been parsed into the segments "/" and "a".
EscapedSlashKeptInSegment ==
    /\ calls = 1
    /\ result
    /\ input = Str(<<"%", "2", "F", "/", "a">>)
    /\ uri.path = << <<SLASH>>, Str(<<"a">>) >>

----------------------------------------------------------------------------
(* C21: NormalizePath preserves absoluteness *)

\* C21: a call of NormalizePath on a Uri whose path is absolute (not empty,
\* with an empty first segment) leaves an absolute path, however many ".."
\* segments the path has, and a call on a Uri whose path is not absolute
\* leaves a path that is not absolute.
NormalizePathPreservesAbsoluteness ==
    [][step' = "NormalizePath" => (IsPathAbsolute(uri') <=> IsPathAbsolute(uri))]_vars

\* NormalizePath has turned the path of "/../a", whose ".." segment has no
\* segment to remove, into the path of "/a".
DotDotAtRootIgnored ==
    /\ step = "NormalizePath"
    /\ result
    /\ input = Str(<<"/", ".", ".", "/", "a">>)
    /\ uri.path = << <<>>, Str(<<"a">>) >>

----------------------------------------------------------------------------
(* C22: a path that ends at a directory *)

\* The last segment of the path is ".", ".." or empty.
EndsAtDirectory(path) ==
    /\ path # <<>>
    /\ path[Len(path)] \in { DotSegment, DotDotSegment, <<>> }

\* The last segment of the path is empty.
EndsWithEmptySegment(path) == path # <<>> /\ path[Len(path)] = <<>>

\* C22 as the specification states it: a call of NormalizePath on a path
\* whose last segment is ".", ".." or empty leaves a path that ends with an
\* empty segment.
DirectoryPathEndsWithEmptySegment ==
    [][(step' = "NormalizePath" /\ EndsAtDirectory(uri.path)) => EndsWithEmptySegment(uri'.path)]_vars

\* C22, amended: a call of NormalizePath on a path whose last segment is
\* ".", ".." or empty leaves a path that is empty or ends with an empty
\* segment.
DirectoryPathEmptyOrEndsWithEmptySegment ==
    [][(step' = "NormalizePath" /\ EndsAtDirectory(uri.path)) => (uri'.path = <<>> \/ EndsWithEmptySegment(uri'.path))]_vars

\* NormalizePath has turned the path of "a/." into the segments "a" and "".
EmptySegmentAppendedAfterDot ==
    /\ step = "NormalizePath"
    /\ result
    /\ input = Str(<<"a", "/", ".">>)
    /\ uri.path = << Str(<<"a">>), <<>> >>

----------------------------------------------------------------------------
(* A parse, then the parsed Uri resolved as a reference against a base *)

NextReference == ParseOnce \/ \E base \in Operands : ResolveAgainst(base)

SpecReference == InitOperations /\ [][NextReference]_vars

----------------------------------------------------------------------------
(* C23: a reference with a scheme *)

\* The target has the scheme, the authority, the query and the fragment of
\* the reference, and its path without the dot segments.
IsReferenceNormalized(target, relativeReference) ==
    /\ target.scheme = relativeReference.scheme
    /\ target.userInfo = relativeReference.userInfo
    /\ target.host = relativeReference.host
    /\ target.hasPort = relativeReference.hasPort
    /\ target.port = relativeReference.port
    /\ target.path = NormalizePath(relativeReference).path
    /\ target.query = relativeReference.query
    /\ target.fragment = relativeReference.fragment

\* C23: when base.Resolve(reference) is called with a reference that has
\* a scheme, the target has the scheme, user information, host, port,
\* query and fragment of the reference and its path without dot segments,
\* and it is equal to the target any other base gives for that reference.
ReferenceWithSchemeIgnoresBase ==
    [][(step' = "Resolve" /\ uri.scheme # <<>>) => (IsReferenceNormalized(uri', uri) /\ \A base \in Operands : Equals(uri', Resolve(base, uri)))]_vars

\* "s://u@h:8/../a?q" has been resolved: the target has its authority and
\* query, and the path of "/a".
AbsoluteReferenceResolved ==
    /\ step = "Resolve"
    /\ input = Str(<<"s", ":", "/", "/", "u", "@", "h", ":", "8", "/", ".",
                     ".", "/", "a", "?", "q">>)
    /\ uri.scheme = Str(<<"s">>)
    /\ uri.userInfo = Str(<<"u">>)
    /\ uri.host = Str(<<"h">>)
    /\ uri.hasPort
    /\ uri.port = 8
    /\ uri.path = << <<>>, Str(<<"a">>) >>
    /\ uri.query = Str(<<"q">>)

----------------------------------------------------------------------------
(* C24: a reference with an empty path *)

\* The Uri parsed from "http://a/b/c/d;p?q".
ExamplesBaseUri == Parsed(ExamplesBase).uri

\* The text of a reference has a query: a '?' before any '#'.
HasQueryDelimiter(text) ==
    /\ Find(text, QUESTION) # 0
    /\ Find(text, HASH) = 0 \/ Find(text, QUESTION) < Find(text, HASH)

\* C24 as the specification states it: when the reference parsed from the
\* input has no scheme, no host and an empty path, the target of Resolve
\* has the path, the scheme and the authority of the base and the fragment
\* of the reference; its query is the query of the reference whenever the
\* reference has one, an empty one included, and the query of the base
\* only when the reference has none.
EmptyPathReferenceKeepsItsQuery ==
    [][(/\ step' = "Resolve" /\ step # "Resolve" /\ uri.scheme = <<>> /\ uri.host = <<>> /\ uri.path = <<>>) => (/\ uri'.path = ExamplesBaseUri.path /\ uri'.query = (IF HasQueryDelimiter(input) THEN uri.query ELSE ExamplesBaseUri.query) /\ uri'.scheme = ExamplesBaseUri.scheme /\ uri'.userInfo = ExamplesBaseUri.userInfo /\ uri'.host = ExamplesBaseUri.host /\ uri'.hasPort = ExamplesBaseUri.hasPort /\ uri'.fragment = uri.fragment)]_vars

----------------------------------------------------------------------------
(* C25: the merge of the base path and a relative path *)

\* The base path without its last segment when it has two or more,
\* followed by the segments of the reference.
MergedSegments(basePath, referencePath) ==
    (IF Len(basePath) >= 2
     THEN SubSeq(basePath, 1, Len(basePath) - 1)
     ELSE basePath) \o referencePath

\* C25: when base.Resolve(reference) is called with a reference that has
\* no scheme, no host and a path that is neither empty nor absolute, the
\* path of the target is what NormalizePath makes of the base path,
\* without its last segment if and only if it has at least two segments,
\* followed by the segments of the reference; the target has the scheme
\* and the authority of the base and the query of the reference.
RelativePathMergedOntoBase ==
    [][(/\ step' = "Resolve" /\ uri.scheme = <<>> /\ uri.host = <<>> /\ uri.path # <<>> /\ uri.path[1] # <<>>) => (/\ uri'.path = NormalizePath([NewUri EXCEPT !.path = MergedSegments(operand'.path, uri.path)]).path /\ uri'.scheme = operand'.scheme /\ uri'.userInfo = operand'.userInfo /\ uri'.host = operand'.host /\ uri'.hasPort = operand'.hasPort /\ uri'.port = operand'.port /\ uri'.query = uri.query)]_vars

\* "a/b" has been resolved against the Uri of "//h", whose path has the
\* one segment "": the target has the host h and the path of "/a/b".
MergedOntoRootPath ==
    /\ step = "Resolve"
    /\ input = Str(<<"a", "/", "b">>)
    /\ operand = Parsed(Str(<<"/", "/", "h">>)).uri
    /\ uri.host = Str(<<"h">>)
    /\ uri.path = << <<>>, Str(<<"a">>), Str(<<"b">>) >>

----------------------------------------------------------------------------
(* One call of ParseFromString on an authority with '@' characters *)

MaxAuthorityLen == 5

AuthorityAlphabet == { ATSIGN, LBRACKET, RBRACKET, Ord("a") }

AuthorityInputs ==
    { Str(<<"/", "/">>) \o authority :
        authority \in StringsUpTo(AuthorityAlphabet, MaxAuthorityLen) }

InitAuthority == FreshWith(AuthorityInputs)

SpecAuthority == InitAuthority /\ [][ParseOnce]_vars

----------------------------------------------------------------------------
(* C26: the user information ends at the last '@' *)

\* The position of the last '@' of a text that has one.
LastAtSign(text) ==
    CHOOSE i \in 1..Len(text) :
        text[i] = ATSIGN /\ \A j \in (i + 1)..Len(text) : text[j] # ATSIGN

\* C26 as the specification states it: after a successful parse of "//"
\* and an authority with an '@', the user information is the decoded text
\* before the last '@' of the authority.
UserInfoEndsAtLastAtSign ==
    (/\ calls = 1
     /\ result
     /\ Find(SubSeq(input, 3, Len(input)), ATSIGN) # 0)
        => uri.userInfo =
               Decoded(SubSeq(input, 3, LastAtSign(input) - 1))

----------------------------------------------------------------------------
(* Construction of a CharacterSet from a range, one statement at a time *)

\* Entry into CharacterSet(first, last).
CharacterSetEnter ==
    /\ characterSet.at = "entry"
    /\ characterSet' = RangeEntry(characterSet)
    /\ UNCHANGED <<uri, input, result, step, explicit, calls, assembled, pec, operand>>

\* One iteration of the for statement.
CharacterSetInsert ==
    /\ characterSet.at = "loop"
    /\ RangeLoopTest(characterSet)
    /\ characterSet' = RangeLoopBody(characterSet)
    /\ UNCHANGED <<uri, input, result, step, explicit, calls, assembled, pec, operand>>

\* The test of the for statement fails and the constructor returns.
CharacterSetReturn ==
    /\ characterSet.at = "loop"
    /\ ~RangeLoopTest(characterSet)
    /\ characterSet' = [characterSet EXCEPT !.at = "constructed"]
    /\ UNCHANGED <<uri, input, result, step, explicit, calls, assembled, pec, operand>>

\* The endpoints: the least and the largest char, their neighbours, and the
\* ends of the ranges the Uri sets are built from.
RangeEndpoints == { 0 - 128, 0 - 127, 0 - 1, 0, ZERO, NINE, 126, 127 }

InitRange ==
    /\ uri = NewUri
    /\ input = <<>>
    /\ result = FALSE
    /\ step = "none"
    /\ explicit = TRUE
    /\ calls = 0
    /\ assembled = NewAssembled
    /\ pec = NewDecoder
    /\ operand = NewUri
    /\ characterSet \in { [NewCharacterSet EXCEPT !.at = "entry", !.first = first, !.last = last] : first, last \in RangeEndpoints }

NextRange == CharacterSetEnter \/ CharacterSetInsert \/ CharacterSetReturn

\* The constructor is a sequential piece of code: it keeps running until it
\* returns.
SpecRange == InitRange /\ [][NextRange]_vars /\ WF_vars(NextRange)

\* The range asked for: the bytes between the smaller and the larger
\* endpoint, both included.  Entry orders the endpoints and nothing changes
\* them afterwards.
RangeAskedFor(cs) == { b \in AllCharacters : cs.first <= b /\ b <= cs.last }

\* C27: for every pair of char values (first, last), in either order and
\* with the larger endpoint possibly the largest char, the construction of
\* CharacterSet(first, last) terminates, and Contains(c) then holds exactly
\* for the bytes between the smaller and the larger endpoint.
RangeConstructionTotal ==
    <>(/\ characterSet.at = "constructed"
       /\ \A b \in AllCharacters : Contains(characterSet.charactersInSet, b) <=> b \in RangeAskedFor(characterSet))

----------------------------------------------------------------------------
(* The values returned by the scheme step and the authority/path split *)

\* C28: the scheme step and the authority/path split report success on
\* every path on which no validation failed, so that ParseFromString stops
\* at one of these two steps only when the step rejected the string through
\* a return statement, and goes on to the path, fragment and query steps
\* otherwise.
StepsReportSuccessUnlessValidationFailed ==
    (calls = 1 /\ step \in {"ParseScheme", "SplitAuthorityFromPathAndParseIt"})
        => (explicit /\ ~result)

----------------------------------------------------------------------------
(* What may follow the closing bracket of an IP-literal *)

\* A reference made of "//[" and an authority without userinfo, followed by
\* neither path nor query nor fragment.
IsBracketedAuthority(text) ==
    /\ Len(text) >= 3
    /\ SubSeq(text, 1, 3) = Str(<<"/", "/", "[">>)
    /\ \A i \in 3..Len(text) : text[i] \notin {SLASH, QUESTION, HASH, ATSIGN}

\* The text after the first ']'.
AfterClosingBracket(text) == SubstrFrom(text, Find(text, RBRACKET) + 1)

\* C29: once the closing ']' of an IP-literal has been read, the only byte
\* accepted next is ':'; any other byte makes the authority parse fail.
\* Every byte after that ':' belongs to the port string, which must be all
\* decimal digits: a byte that is not a digit makes the parse fail, and the
\* port of a Uri that parsed is the number the bytes after the ':' denote.
ColonOnlyAfterClosingBracket ==
    (calls = 1 /\ step # "ParseScheme" /\ IsBracketedAuthority(input) /\ Find(input, RBRACKET) # 0) =>
        /\ (AfterClosingBracket(input) # <<>> /\ AfterClosingBracket(input)[1] # COLON) => AuthorityRejected
        /\ (\E i \in 2..Len(AfterClosingBracket(input)) : AfterClosingBracket(input)[i] \notin Digits) => AuthorityRejected
        /\ (result /\ Len(AfterClosingBracket(input)) > 1) => (uri.hasPort /\ uri.port = NumeralValue(Tail(AfterClosingBracket(input))))

PortAfterClosingBracket ==
    /\ calls = 1
    /\ result
    /\ input = Str(<<"/", "/", "[", ":", ":", "]", ":", "1">>)
    /\ uri.hasPort
    /\ uri.port = 1

----------------------------------------------------------------------------
(* C30: the shape of a normalized path *)

\* No segment is "." or "..", and no empty segment follows an empty segment.
HasNormalizedShape(path) ==
    /\ \A i \in 1..Len(path) : path[i] # DotSegment /\ path[i] # DotDotSegment
    /\ \A i \in 1..(Len(path) - 1) : ~(path[i] = <<>> /\ path[i + 1] = <<>>)

\* C30: whatever the path, the path NormalizePath leaves has no segment
\* equal to "." or ".." and no two consecutive empty segments; and a path
\* that has this shape already is left as it is.
NormalizedPathShape ==
    [][step' = "NormalizePath" => (HasNormalizedShape(uri'.path) /\ (HasNormalizedShape(uri.path) => uri'.path = uri.path))]_vars

\* NormalizePath has turned the path of "/.//a", with a "." segment before an
\* empty one, into the path of "/a".
DotAndEmptySegmentRemoved ==
    /\ step = "NormalizePath"
    /\ input = Str(<<"/", ".", "/", "/", "a">>)
    /\ uri.path = << <<>>, Str(<<"a">>) >>

====
